---- MODULE Spec2Model ----
(***************************************************************************)
(* A model of stonk-chart: the move segmenter (data.py), the per-ticker     *)
(* annotation store, the price cache and clear_cache (cache.py), the news  *)
(* lookup and the LLM summariser with its retry loop (news.py, llm.py),    *)
(* the orchestrating loop annotate_events and build_chart (chart.py).      *)
(*                                                                         *)
(* Conventions                                                             *)
(*   - Python str is a TLA+ string; Optional[T] is None or Some(v).        *)
(*   - A dict is a function whose DOMAIN is its key set, so a span record  *)
(*     that has no "event" key yet really has no such field.               *)
(*   - pct is kept in hundredths of a percent (round(pct, 2) * 100); where *)
(*     the code rounds or compares doubles, the double is computed.        *)
(*   - An LLM reply text is a sequence of tokens: " " (whitespace), "\""   *)
(*     (a double quote) and words holding neither.                         *)
(***************************************************************************)
EXTENDS Integers, Sequences, FiniteSets, TLC

VARIABLES
    files,      \* cache directory: ticker -> state of {ticker}_annotations.json
    pc,         \* position of the (single) process
    caller,     \* the call the process was started with: "annotate", "direct", "chart", ...
    ticker,     \* annotate_events / save_annotation: the ticker argument
    recs,       \* annotate_events: the records list (mutated in place)
    idx,        \* annotate_events: loop index i (1-based)
    delay,      \* annotate_events: the delay argument
    cached_count, \* annotate_events: cached_count
    news,       \* annotate_events: result of search_news for the current span
    news_items, \* summarise_with_llm: the news_items argument
    retries,    \* summarise_with_llm: the retries argument
    attempt,    \* summarise_with_llm: loop variable
    ret,        \* value returned by the last call that returned (Optional)
    pending,    \* save_annotation: the in-memory store being dumped
    arg,        \* save_annotation / get_cached_annotation: the rec argument
    pre,        \* history: files when the current process started
    log,        \* history: store accesses, external calls and sleeps of the run
    slog,       \* history: attempts, backoffs and diagnostics of the summarise call
    runs,       \* history: number of operations started so far
    cache_dir,  \* cache directory: TRUE when the directory exists
    prices,     \* cache directory: the (ticker, start, end) of the price files
    pre_dir,    \* history: names in the directory when the current process started
    df,         \* find_extreme_moves: the Close column, one value per trading day
    min_pct,    \* find_extreme_moves: the min_pct argument (hundredths of a percent)
    top_n,      \* find_extreme_moves: the top_n argument (Optional)
    noise_pct,  \* find_extreme_moves: the noise_pct argument (hundredths of a percent)
    day,        \* find_extreme_moves: position of the loop over daily_pct
    spans,      \* find_extreme_moves: spans
    span_start, \* find_extreme_moves: span_start (Optional day)
    prev_sign,  \* find_extreme_moves: prev_sign
    prev_idx,   \* find_extreme_moves: prev_idx
    procs,      \* concurrent runs: process -> the locals of its annotate_events
    start_str,  \* download_prices: start_str
    end_str,    \* download_prices: end_str
    no_news,    \* build_chart: the no_news argument
    clear_cache \* main: args.clear_cache

vars == <<files, pc, caller, ticker, recs, idx, delay, cached_count, news,
          news_items, retries, attempt, ret, pending, arg, pre, log, slog, runs,
          cache_dir, prices, pre_dir,
          df, min_pct, top_n, noise_pct, day, spans, span_start, prev_sign, prev_idx,
          procs, start_str, end_str, no_news, clear_cache>>

(* the arguments and local variables of find_extreme_moves *)
segvars == <<df, min_pct, top_n, noise_pct, day, spans, span_start, prev_sign, prev_idx>>

(* every variable of the store and of the enrichment pipeline but pc *)
runvars == <<files, caller, ticker, recs, idx, delay, cached_count, news, news_items,
             retries, attempt, ret, pending, arg, pre, log, slog, runs,
             cache_dir, prices, pre_dir, procs, start_str, end_str, no_news,
             clear_cache>>

(* the variables that the enrichment pipeline neither reads nor writes *)
(* the arguments of main and build_chart that no other operation has *)
chartvars == <<start_str, end_str, no_news, clear_cache>>

xvars == <<prices, pre_dir, segvars, procs, chartvars>>

-----------------------------------------------------------------------------
(* Bounds of the model *)

MaxSpans == 2       \* longest records list handed to annotate_events
MaxRuns == 2        \* operations started in one behaviour
MaxRetries == 3     \* largest retries value of a direct summarise call
MaxCalls == 3       \* direct store / summariser calls in one behaviour

(* Program constants *)

DefaultRetries == 3     \* summarise_with_llm(..., retries: int = 3)
BackoffSecs == 1        \* time.sleep(1) in the except branch
HeadlineCap == 3        \* news[:3]
WordCap == 12           \* words[:12]
DefaultDelay == 1       \* annotate_events(..., delay: float = 1.0)

-----------------------------------------------------------------------------
(* Optional values *)

None == [some |-> FALSE]
Some(v) == [some |-> TRUE, val |-> v]

(* Python truthiness of an Optional[str]: None and "" are falsy *)
Truthy(o) == o.some /\ o.val # ""

-----------------------------------------------------------------------------
(* Python floats.  Prices and percentages are binary doubles in the code:    *)
(* every division, multiplication and subtraction is rounded to 53           *)
(* significant bits, a tie to the even neighbour.  A non-negative double is  *)
(* written here as a whole number m and an exponent e and has the value      *)
(* m * 2^e; m is a sequence of digits in base 256, most significant first,   *)
(* because it does not fit a machine integer of the checker.  Percentages    *)
(* enter and leave as whole hundredths.                                      *)

MantissaBits == 53

Base == 256

LimbBits == 8

Dy(m, e) == [m |-> m, e |-> e]

Zeros(n) == [i \in 1..n |-> 0]

RECURSIVE Pow2(_)
Pow2(n) == IF n = 0 THEN 1 ELSE 2 * Pow2(n - 1)

(* the digits without leading zeros *)
RECURSIVE Trim(_)
Trim(m) == IF m = <<>> \/ m[1] # 0 THEN m ELSE Trim(Tail(m))

RECURSIVE IntLimbs(_)
IntLimbs(n) == IF n = 0 THEN <<>> ELSE Append(IntLimbs(n \div Base), n % Base)

RECURSIVE LimbsInt(_)
LimbsInt(m) ==
    IF m = <<>> THEN 0 ELSE Base * LimbsInt(SubSeq(m, 1, Len(m) - 1)) + m[Len(m)]

RECURSIVE SmallBitLen(_)
SmallBitLen(v) == IF v = 0 THEN 0 ELSE 1 + SmallBitLen(v \div 2)

(* the number of bits of m *)
BitLen(m) == IF m = <<>> THEN 0 ELSE (Len(m) - 1) * LimbBits + SmallBitLen(m[1])

(* m + 1 *)
RECURSIVE Inc(_)
Inc(m) ==
    IF m = <<>> THEN <<1>>
    ELSE IF m[Len(m)] < Base - 1 THEN [m EXCEPT ![Len(m)] = @ + 1]
    ELSE Append(Inc(SubSeq(m, 1, Len(m) - 1)), 0)

(* m * k + c for a small whole number k *)
RECURSIVE MulSmall(_, _, _)
MulSmall(m, k, c) ==
    IF m = <<>> THEN IntLimbs(c)
    ELSE LET v == m[Len(m)] * k + c
         IN  Append(MulSmall(SubSeq(m, 1, Len(m) - 1), k, v \div Base), v % Base)

(* long division of m by the whole number d, from remainder r on: the *)
(* quotient q and what remains                                         *)
RECURSIVE DivLimbs(_, _, _, _)
DivLimbs(m, d, r, q) ==
    IF m = <<>> THEN [q |-> Trim(q), r |-> r]
    ELSE LET v == r * Base + Head(m)
         IN  DivLimbs(Tail(m), d, v % d, Append(q, v \div d))

(* m * 2^t *)
ShiftLeft(m, t) == Trim(MulSmall(m, Pow2(t % LimbBits), 0) \o Zeros(t \div LimbBits))

(* m without its t lowest bits, and whether one of these bits was set *)
ShiftRight(m, t) ==
    LET drop == t \div LimbBits
        kept == IF drop >= Len(m) THEN <<>> ELSE SubSeq(m, 1, Len(m) - drop)
        lost == IF drop >= Len(m) THEN m ELSE SubSeq(m, Len(m) - drop + 1, Len(m))
        d == DivLimbs(kept, Pow2(t % LimbBits), 0, <<>>)
    IN  [n |-> d.q, sticky |-> d.r # 0 \/ \E i \in DOMAIN lost : lost[i] # 0]

(* the whole number nearest to m / 2^s for s >= 1, a tie to the even one; *)
(* sticky says that the exact value is a little above m                    *)
RoundAt(m, sticky, s) ==
    LET t == ShiftRight(m, s - 1)
        hi == DivLimbs(t.n, 2, 0, <<>>).q
        half == t.n # <<>> /\ t.n[Len(t.n)] % 2 = 1
        odd == hi # <<>> /\ hi[Len(hi)] % 2 = 1
        up == half /\ (t.sticky \/ sticky \/ odd)
    IN  IF up THEN Inc(hi) ELSE hi

(* the nearest double to the exact value m * 2^e *)
RoundToDouble(m, sticky, e) ==
    LET n == BitLen(m)
    IN  IF n <= MantissaBits THEN Dy(m, e)
        ELSE Dy(RoundAt(m, sticky, n - MantissaBits), e + n - MantissaBits)

(* the double a / d of two whole numbers a >= 0, d > 0: the quotient is *)
(* taken 11 digits behind the point, more than a double holds, and then *)
(* rounded                                                              *)
FDiv(a, d) ==
    LET r == DivLimbs(IntLimbs(a) \o Zeros(11), d, 0, <<>>)
    IN  RoundToDouble(r.q, r.r # 0, -(11 * LimbBits))

(* the double x * k *)
FMul(x, k) == RoundToDouble(MulSmall(x.m, k, 0), FALSE, x.e)

(* a < b for digits without leading zeros *)
LimbsLess(a, b) ==
    \/ Len(a) < Len(b)
    \/ /\ Len(a) = Len(b)
       /\ \E i \in 1..Len(a) : a[i] < b[i] /\ \A j \in 1..(i - 1) : a[j] = b[j]

(* x < y: the digits of both at the lower of the two exponents *)
DyLess(x, y) ==
    LET e == IF x.e < y.e THEN x.e ELSE y.e
    IN  LimbsLess(ShiftLeft(x.m, x.e - e), ShiftLeft(y.m, y.e - e))

(* a - b - borrow for digits of the same length, a >= b *)
RECURSIVE SubLimbs(_, _, _)
SubLimbs(a, b, borrow) ==
    IF a = <<>> THEN <<>>
    ELSE LET n == Len(a)
             v == a[n] - b[n] - borrow
         IN  Append(SubLimbs(SubSeq(a, 1, n - 1), SubSeq(b, 1, n - 1),
                             IF v < 0 THEN 1 ELSE 0),
                    IF v < 0 THEN v + Base ELSE v)

(* the double x - y for x >= y *)
FSub(x, y) ==
    LET e == IF x.e < y.e THEN x.e ELSE y.e
        a == ShiftLeft(x.m, x.e - e)
        b == ShiftLeft(y.m, y.e - e)
    IN  RoundToDouble(Trim(SubLimbs(a, Zeros(Len(a) - Len(b)) \o b, 0)), FALSE, e)

(* the whole number nearest to the exact value of x * k, a tie to the even  *)
(* one: what round(x, 2) and the format .1f do with the digits of a double  *)
RoundScaled(x, k) ==
    LET y == MulSmall(x.m, k, 0)
    IN  LimbsInt(IF x.e >= 0 THEN ShiftLeft(y, x.e) ELSE RoundAt(y, FALSE, -x.e))

-----------------------------------------------------------------------------
(* f"{pct:+.1f}% move" for pct given in hundredths: the digit is decided by  *)
(* the double that holds pct, which lies above or below the decimal number   *)
(* unless it is held exactly (x.25, x.75: half-to-even).                     *)

Digit(d) ==
    CASE d = 0 -> "0" [] d = 1 -> "1" [] d = 2 -> "2" [] d = 3 -> "3"
      [] d = 4 -> "4" [] d = 5 -> "5" [] d = 6 -> "6" [] d = 7 -> "7"
      [] d = 8 -> "8" [] d = 9 -> "9"

RECURSIVE NatStr(_)
NatStr(n) == IF n < 10 THEN Digit(n) ELSE NatStr(n \div 10) \o Digit(n % 10)

Abs(x) == IF x < 0 THEN -x ELSE x

(* pct is the double nearest to h / 100 *)
Tenths(h) == RoundScaled(FDiv(h, 100), 10)

(* the sign printed is the sign bit of the float, the digits are those of *)
(* its magnitude: -0.0 is printed as "-0.0"                               *)
FmtSigned1(p, neg) ==
    LET t == Tenths(Abs(p))
    IN  (IF neg THEN "-" ELSE "+") \o NatStr(t \div 10) \o "." \o Digit(t % 10)

FallbackLabel(rec) == FmtSigned1(rec.pct, rec.pct_neg) \o "% move"

-----------------------------------------------------------------------------
(* Trimming of the LLM reply: text.strip().strip('"').split(), then          *)
(* " ".join(words[:12]).                                                     *)

WS == " "
QUOTE == "\""

RECURSIVE LStrip(_, _)
LStrip(s, c) == IF s # <<>> /\ Head(s) = c THEN LStrip(Tail(s), c) ELSE s

RECURSIVE RStrip(_, _)
RStrip(s, c) ==
    IF s # <<>> /\ s[Len(s)] = c THEN RStrip(SubSeq(s, 1, Len(s) - 1), c) ELSE s

Strip(s, c) == RStrip(LStrip(s, c), c)

(* str.split(): maximal runs of non-whitespace tokens, glued into words *)
RECURSIVE SplitFrom(_, _, _)
SplitFrom(s, cur, acc) ==
    IF s = <<>> THEN (IF cur = "" THEN acc ELSE Append(acc, cur))
    ELSE IF Head(s) = WS
         THEN SplitFrom(Tail(s), "", IF cur = "" THEN acc ELSE Append(acc, cur))
         ELSE SplitFrom(Tail(s), cur \o Head(s), acc)

Split(s) == SplitFrom(s, "", <<>>)

RECURSIVE Join(_)
Join(ws) ==
    IF ws = <<>> THEN ""
    ELSE IF Len(ws) = 1 THEN ws[1]
    ELSE ws[1] \o " " \o Join(Tail(ws))

FirstN(s, n) == SubSeq(s, 1, IF Len(s) < n THEN Len(s) ELSE n)

TrimSummary(text) == Join(FirstN(Split(Strip(Strip(text, WS), QUOTE)), WordCap))

-----------------------------------------------------------------------------
(* Inputs: tickers, span records (as find_extreme_moves builds them), news   *)
(* results and replies of the external services.                             *)

Tickers == {"XYZ"}

(* the float pct is held as its value in hundredths, pct, and its sign bit, *)
(* pct_neg: the two say the same unless pct is the float -0.0              *)
MkSpan(s, e, price, pct, days) ==
    [start_date |-> s, end_date |-> e, date |-> e, price |-> price,
     pct |-> pct, pct_neg |-> pct < 0, days |-> days]

SpanA == MkSpan("2024-01-03", "2024-01-03", 10523, 523, 1)
SpanB == MkSpan("2024-01-04", "2024-01-08", 9224, -1234, 3)

Spans == {SpanA, SpanB}

RECURSIVE SeqsUpTo(_, _)
SeqsUpTo(S, n) ==
    IF n = 0 THEN {<<>>}
    ELSE LET shorter == SeqsUpTo(S, n - 1)
         IN  shorter \cup {Append(q, x) : q \in {t \in shorter : Len(t) = n - 1}, x \in S}

RecordLists == SeqsUpTo(Spans, MaxSpans)

Delays == {DefaultDelay, DefaultDelay + 1}

NewsItem(n) == [title |-> "headline " \o Digit(n), source |-> "wire"]

News0 == <<>>
News4 == <<NewsItem(1), NewsItem(2), NewsItem(3), NewsItem(4)>>

(* What DDGS().news(...) does: raises, or returns a list *)
DDGSOutcomes == {[raised |-> TRUE, results |-> <<>>],
                 [raised |-> FALSE, results |-> News0],
                 [raised |-> FALSE, results |-> News4]}

TextCause == <<WS, QUOTE, "Strong", WS, "earnings", WS, WS, "beat", QUOTE, WS>>
TextBlank == <<WS>>

(* What the completion service does on one attempt: create() raises, the     *)
(* response has no choices[0].message.content, or it carries a content that  *)
(* is None, "" or a text.                                                    *)
LLMResponses == {[kind |-> "transport_error", content |-> None],
                 [kind |-> "malformed", content |-> None],
                 [kind |-> "reply", content |-> None],
                 [kind |-> "reply", content |-> Some(<<>>)],
                 [kind |-> "reply", content |-> Some(TextBlank)],
                 [kind |-> "reply", content |-> Some(TextCause)]}

-----------------------------------------------------------------------------
(* cache.py: the annotation store *)

EmptyDict == [k \in {} |-> None]

FileMissing == [kind |-> "missing", data |-> EmptyDict]
FileGarbage == [kind |-> "garbage", data |-> EmptyDict]
FileJson(d) == [kind |-> "json", data |-> d]

Raised == [ok |-> FALSE, val |-> None]
Ok(v) == [ok |-> TRUE, val |-> v]

(* _load_annotations_store: {} when the file does not exist, else json.load, *)
(* which raises on a file that is not JSON                                   *)
LoadAnnotationsStore(fs, t) ==
    IF fs[t].kind = "missing" THEN Ok(EmptyDict)
    ELSE IF fs[t].kind = "json" THEN Ok(fs[t].data)
    ELSE Raised

(* mutant: the key leaves out the end date *)
SpanKey_StartOnly(rec) == rec.start_date \o "|"

SpanKey(rec) == rec.start_date \o "|" \o rec.end_date

DictGet(d, k) == IF k \in DOMAIN d THEN Some(d[k]) ELSE None

(* mutant: the lookup builds its key from the marker date and the end date *)
GetCachedAnnotation_OtherKey(fs, t, rec) ==
    LET l == LoadAnnotationsStore(fs, t)
    IN  IF l.ok THEN Ok(DictGet(l.val, rec.date \o "|" \o rec.start_date)) ELSE Raised

GetCachedAnnotation(fs, t, rec) ==
    LET l == LoadAnnotationsStore(fs, t)
    IN  IF l.ok THEN Ok(DictGet(l.val, SpanKey(rec))) ELSE Raised

SetKey(d, k, v) == [x \in DOMAIN d \cup {k} |-> IF x = k THEN v ELSE d[x]]

(* the value save_annotation stores: rec.get("event", ""), rec.get("headlines", []) *)
AnnotationOf(rec) ==
    [event |-> IF "event" \in DOMAIN rec THEN rec["event"] ELSE "",
     headlines |-> IF "headlines" \in DOMAIN rec THEN rec["headlines"] ELSE <<>>]

-----------------------------------------------------------------------------
(* news.py: search_news and the pieces of annotate_events *)

SearchNewsResult(o) == IF o.raised THEN <<>> ELSE o.results

Titles(items) == [n \in 1..Len(items) |-> items[n].title]

(* mutant: every title found is kept *)
HeadlinesOf_All(items) == Titles(items)

HeadlinesOf(items) == Titles(FirstN(items, HeadlineCap))

EventOf(summary, rec) == IF Truthy(summary) THEN summary.val ELSE FallbackLabel(rec)

(* no call is in progress: nothing was started yet, or the last call has  *)
(* returned, raised (an exception, SystemExit) or was killed               *)
Running == pc \notin {"idle", "returned", "crashed", "killed", "exited"}

(* annotate_events runs on its own or inside build_chart *)
Annotating(who) == who \in {"annotate", "chart"}

ReturnPoint(who) == IF Annotating(who) THEN "assign" ELSE "returned"

-----------------------------------------------------------------------------
(* Initial state: a fresh checkout, no cache file, nothing running *)

(* main has not been called *)
ChartIdle ==
    /\ start_str = ""
    /\ end_str = ""
    /\ no_news = FALSE
    /\ clear_cache = FALSE

(* no segmentation has been started *)
SegIdle ==
    /\ df = <<>>
    /\ min_pct = 0
    /\ top_n = None
    /\ noise_pct = 0
    /\ day = 0
    /\ spans = <<>>
    /\ span_start = None
    /\ prev_sign = 0
    /\ prev_idx = 0

Init ==
    /\ files = [t \in Tickers |-> FileMissing]
    /\ pc = "idle"
    /\ caller = "none"
    /\ ticker = "XYZ"
    /\ recs = <<>>
    /\ idx = 0
    /\ delay = 0
    /\ cached_count = 0
    /\ news = <<>>
    /\ news_items = <<>>
    /\ retries = 0
    /\ attempt = 0
    /\ ret = None
    /\ pending = EmptyDict
    /\ arg = EmptyDict
    /\ pre = [t \in Tickers |-> FileMissing]
    /\ log = <<>>
    /\ slog = <<>>
    /\ runs = 0
    /\ cache_dir = FALSE
    /\ prices = {}
    /\ pre_dir = {}
    /\ procs = <<>>
    /\ ChartIdle
    /\ SegIdle

(* A new process starts with nothing of the previous one but the files *)
FreshProcess(who) ==
    /\ ~Running
    /\ caller' = who
    /\ pre' = files
    /\ log' = <<>>
    /\ runs' = runs + 1
    /\ news' = <<>>

-----------------------------------------------------------------------------
(* annotate_events *)

(* entry: total = len(records), cached_count = 0, first iteration i = 1 *)
AnnotateStart(rs, t, d) ==
    /\ runs < MaxRuns
    /\ FreshProcess("annotate")
    /\ pc' = "loop"
    /\ slog' = <<>>
    /\ ticker' = t
    /\ recs' = rs
    /\ idx' = 1
    /\ delay' = d
    /\ cached_count' = 0
    /\ arg' = EmptyDict
    /\ pending' = EmptyDict
    /\ ret' = None
    /\ news_items' = <<>>
    /\ retries' = 0
    /\ attempt' = 0
    /\ UNCHANGED files
    /\ UNCHANGED <<cache_dir, xvars>>

(* loop exhausted: return records, to build_chart when that made the call *)
AnnotateReturn ==
    /\ pc = "loop"
    /\ idx > Len(recs)
    /\ pc' = IF caller = "chart" THEN "render" ELSE "returned"
    /\ UNCHANGED <<files, caller, ticker, recs, idx, delay, cached_count, news,
                   news_items, retries, attempt, ret, pending, arg, pre, log, slog, runs>>
    /\ UNCHANGED <<cache_dir, xvars>>

(* cached = get_cached_annotation(ticker, rec); on a hit fill rec and continue *)
CacheLookup ==
    /\ pc = "loop"
    /\ idx <= Len(recs)
    /\ LET rec == recs[idx]
           r == GetCachedAnnotation(files, ticker, rec)
           ev(out) == [e |-> "get", i |-> idx, file |-> files[ticker].kind, out |-> out]
       IN  IF ~r.ok
           THEN /\ pc' = "crashed"
                /\ log' = Append(log, ev("raise"))
                /\ UNCHANGED <<recs, idx, cached_count>>
           ELSE IF r.val.some
           THEN /\ recs' = [recs EXCEPT ![idx] =
                               SetKey(SetKey(rec, "event", r.val.val.event),
                                      "headlines", r.val.val.headlines)]
                /\ cached_count' = cached_count + 1
                /\ idx' = idx + 1
                /\ pc' = "loop"
                /\ log' = Append(log, ev("hit"))
           ELSE /\ pc' = "search"
                /\ log' = Append(log, ev("miss"))
                /\ UNCHANGED <<recs, idx, cached_count>>
    /\ UNCHANGED <<files, caller, ticker, delay, news, news_items, retries, attempt,
                   ret, pending, arg, pre, slog, runs>>
    /\ UNCHANGED <<cache_dir, xvars>>

(* mutant: search_news lets the exception of DDGS().news(...) through *)
SearchNews_Propagates(o) ==
    /\ pc = "search"
    /\ log' = Append(log, [e |-> "news", i |-> idx, failed |-> o.raised])
    /\ IF o.raised
       THEN /\ pc' = "crashed"
            /\ UNCHANGED <<news, recs>>
       ELSE /\ news' = o.results
            /\ recs' = [recs EXCEPT ![idx] =
                            SetKey(recs[idx], "headlines", HeadlinesOf(news'))]
            /\ pc' = "summarise"
    /\ UNCHANGED <<files, caller, ticker, idx, delay, cached_count, news_items,
                   retries, attempt, ret, pending, arg, pre, slog, runs>>
    /\ UNCHANGED <<cache_dir, xvars>>

(* news = search_news(company_name, search_date); rec["headlines"] = titles of news[:3] *)
SearchNews(o) ==
    /\ pc = "search"
    /\ news' = SearchNewsResult(o)
    /\ recs' = [recs EXCEPT ![idx] = SetKey(recs[idx], "headlines", HeadlinesOf(news'))]
    /\ log' = Append(log, [e |-> "news", i |-> idx, failed |-> o.raised])
    /\ pc' = "summarise"
    /\ UNCHANGED <<files, caller, ticker, idx, delay, cached_count, news_items,
                   retries, attempt, ret, pending, arg, pre, slog, runs>>
    /\ UNCHANGED <<cache_dir, xvars>>

-----------------------------------------------------------------------------
(* summarise_with_llm (news.py) / summarise (llm.py): same control flow *)

(* mutant: no early return for an empty news_items *)
SummariseEnter_NoShortCircuit(items, r, who) ==
    /\ news_items' = items
    /\ retries' = r
    /\ slog' = <<>>
    /\ IF r < 1
       THEN /\ ret' = None
            /\ attempt' = 0
            /\ pc' = ReturnPoint(who)
       ELSE /\ ret' = None
            /\ attempt' = 1
            /\ pc' = "attempt"

(* entry: `if not news_items: return None`, then the for loop over          *)
(* range(1, retries + 1), empty when retries < 1                            *)
SummariseEnter(items, r, who) ==
    /\ news_items' = items
    /\ retries' = r
    /\ slog' = <<>>
    /\ IF items = <<>> \/ r < 1
       THEN /\ ret' = None
            /\ attempt' = 0
            /\ pc' = ReturnPoint(who)
       ELSE /\ ret' = None
            /\ attempt' = 1
            /\ pc' = "attempt"

(* summary = summarise_with_llm(company_name, ticker, search_date, rec["pct"], news) *)
AnnotateSummarise ==
    /\ pc = "summarise"
    /\ SummariseEnter(news, DefaultRetries, "annotate")
    /\ UNCHANGED <<files, caller, ticker, recs, idx, delay, cached_count, news,
                   pending, arg, pre, log, runs>>
    /\ UNCHANGED <<cache_dir, xvars>>

(* mutant: range(1, retries + 2) *)
LoopContinues_OneMore(a, r) == a < r + 1

(* `for attempt in range(1, retries + 1)`: is there an iteration after this one *)
LoopContinues(a, r) == a < r

(* the end of an iteration of `for attempt in range(1, retries + 1)`: the *)
(* next attempt, or `return None` after the loop                          *)
LoopAdvance ==
    IF LoopContinues(attempt, retries)
    THEN /\ attempt' = attempt + 1
         /\ pc' = "attempt"
         /\ UNCHANGED ret
    ELSE /\ ret' = None
         /\ pc' = ReturnPoint(caller)
         /\ UNCHANGED attempt

(* one request of the retry loop: client.chat.completions.create answers or *)
(* raises.  A text returns; an empty content ends the iteration; a failed   *)
(* final attempt prints the diagnostic and ends the iteration; any other    *)
(* failed attempt enters time.sleep(1), where the process waits.            *)
LLMAttempt(resp) ==
    /\ pc = "attempt"
    /\ LET raises == resp.kind # "reply"
           hasText == ~raises /\ resp.content.some /\ resp.content.val # <<>>
           last == attempt = retries    \* `if attempt == retries` in the except branch
           call == [e |-> "call", attempt |-> attempt,
                    out |-> IF raises THEN resp.kind
                            ELSE IF hasText THEN "text" ELSE "empty"]
           handler == IF raises /\ last
                      THEN <<[e |-> "diagnostic", attempt |-> attempt]>>
                      ELSE <<>>
       IN  /\ slog' = slog \o <<call>> \o handler
           /\ log' = Append(log, [e |-> "llm", i |-> idx])
           /\ IF hasText
              THEN /\ ret' = Some(TrimSummary(resp.content.val))
                   /\ pc' = ReturnPoint(caller)
                   /\ UNCHANGED attempt
              ELSE IF raises /\ ~last
              THEN /\ pc' = "backoff"
                   /\ UNCHANGED <<attempt, ret>>
              ELSE LoopAdvance
    /\ UNCHANGED <<files, caller, ticker, recs, idx, delay, cached_count, news,
                   news_items, retries, pending, arg, pre, runs>>
    /\ UNCHANGED <<cache_dir, xvars>>

(* time.sleep(1) in the except branch is over, the iteration ends *)
LLMBackoff ==
    /\ pc = "backoff"
    /\ slog' = Append(slog, [e |-> "backoff", attempt |-> attempt, secs |-> BackoffSecs])
    /\ LoopAdvance
    /\ UNCHANGED <<files, caller, ticker, recs, idx, delay, cached_count, news,
                   news_items, retries, pending, arg, pre, log, runs>>
    /\ UNCHANGED <<cache_dir, xvars>>

(* a direct call of the summariser *)
SummariseDirect(items, r) ==
    /\ runs < MaxCalls
    /\ FreshProcess("direct")
    /\ pending' = EmptyDict
    /\ SummariseEnter(items, r, "direct")
    /\ recs' = <<>>
    /\ idx' = 0
    /\ delay' = 0
    /\ cached_count' = 0
    /\ arg' = EmptyDict
    /\ UNCHANGED <<files, ticker>>
    /\ UNCHANGED <<cache_dir, xvars>>

-----------------------------------------------------------------------------
(* annotate_events, continued *)

(* mutant: the record is not saved before the loop goes on *)
AssignEvent_NoSave ==
    /\ pc = "assign"
    /\ recs' = [recs EXCEPT ![idx] = SetKey(recs[idx], "event", EventOf(ret, recs[idx]))]
    /\ pc' = "pace"
    /\ UNCHANGED <<files, caller, ticker, idx, delay, cached_count, news, news_items,
                   retries, attempt, ret, pending, arg, pre, log, slog, runs>>
    /\ UNCHANGED <<cache_dir, xvars>>

(* rec["event"] = summary or f"{rec['pct']:+.1f}% move" *)
AssignEvent ==
    /\ pc = "assign"
    /\ recs' = [recs EXCEPT ![idx] = SetKey(recs[idx], "event", EventOf(ret, recs[idx]))]
    /\ pc' = "save"
    /\ UNCHANGED <<files, caller, ticker, idx, delay, cached_count, news, news_items,
                   retries, attempt, ret, pending, arg, pre, log, slog, runs>>
    /\ UNCHANGED <<cache_dir, xvars>>

(* save_annotation up to and including open("w"): the store is loaded, the  *)
(* key is set in memory, and opening the file for writing empties it        *)
SaveBegin(t, rec) ==
    LET l == LoadAnnotationsStore(files, t)
    IN  IF ~l.ok
        THEN /\ pc' = "crashed"
             /\ UNCHANGED <<files, pending, arg, cache_dir>>
        ELSE /\ pending' = SetKey(l.val, SpanKey(rec), AnnotationOf(rec))
             /\ arg' = rec
             /\ cache_dir' = TRUE
             /\ files' = [files EXCEPT ![t] = FileGarbage]
             /\ pc' = "dump"

(* save_annotation(ticker, rec) *)
AnnotateSave ==
    /\ pc = "save"
    /\ SaveBegin(ticker, recs[idx])
    /\ UNCHANGED <<caller, ticker, recs, idx, delay, cached_count, news, news_items,
                   retries, attempt, ret, pre, log, slog, runs>>
    /\ UNCHANGED xvars

(* json.dump(store, f) and the close of the file: the whole store is on disk *)
SaveDump ==
    /\ pc = "dump"
    /\ files' = [files EXCEPT ![ticker] = FileJson(pending)]
    /\ log' = Append(log, [e |-> "put", i |-> idx])
    /\ pc' = IF Annotating(caller) THEN "pace" ELSE "returned"
    /\ UNCHANGED <<caller, ticker, recs, idx, delay, cached_count, news, news_items,
                   retries, attempt, ret, pending, arg, pre, slog, runs>>
    /\ UNCHANGED <<cache_dir, xvars>>

(* mutant: the delay is skipped before the last span *)
NeedsDelay_NotBeforeLast(i, total) == i < total - 1

(* `if i < total` *)
NeedsDelay(i, total) == i < total

(* if i < total: time.sleep(delay); then the next iteration *)
Pace ==
    /\ pc = "pace"
    /\ log' = IF NeedsDelay(idx, Len(recs))
              THEN Append(log, [e |-> "delay", i |-> idx, secs |-> delay])
              ELSE log
    /\ idx' = idx + 1
    /\ pc' = "loop"
    /\ UNCHANGED <<files, caller, ticker, recs, delay, cached_count, news, news_items,
                   retries, attempt, ret, pending, arg, pre, slog, runs>>
    /\ UNCHANGED <<cache_dir, xvars>>

(* the process is terminated from outside; the files stay as they are *)
Kill ==
    /\ Running
    /\ caller = "annotate"
    /\ pc' = "killed"
    /\ UNCHANGED <<files, caller, ticker, recs, idx, delay, cached_count, news,
                   news_items, retries, attempt, ret, pending, arg, pre, log, slog, runs>>
    /\ UNCHANGED <<cache_dir, xvars>>

-----------------------------------------------------------------------------
(* direct calls of the store *)

AltA == MkSpan("2024-01-03", "2024-01-03", 10111, 111, 2)
Straddle == MkSpan("2024-01-03", "2024-01-08", 9224, -877, 4)

WithResult(rec, ev, hs) == SetKey(SetKey(rec, "event", ev), "headlines", hs)

PutRecs == {SpanA,
            WithResult(SpanA, "Strong earnings beat", <<"headline 1">>),
            WithResult(AltA, "+1.1% move", <<>>),
            WithResult(SpanB, "Guidance cut", <<"headline 2", "headline 3">>),
            WithResult(Straddle, "-8.8% move", <<>>)}

QuerySpans == {SpanA, AltA, SpanB, Straddle,
               MkSpan("2024-01-04", "2024-01-04", 9224, -1234, 3)}

DirectStart ==
    /\ runs < MaxCalls
    /\ FreshProcess("direct")
    /\ slog' = <<>>
    /\ recs' = <<>>
    /\ idx' = 0
    /\ delay' = 0
    /\ cached_count' = 0
    /\ news_items' = <<>>
    /\ retries' = 0
    /\ attempt' = 0

(* save_annotation(t, rec) *)
SaveDirect(t, rec) ==
    /\ DirectStart
    /\ ticker' = t
    /\ ret' = None
    /\ SaveBegin(t, rec)
    /\ UNCHANGED xvars

(* get_cached_annotation(t, q) *)
GetDirect(t, q) ==
    /\ DirectStart
    /\ ticker' = t
    /\ arg' = q
    /\ pending' = EmptyDict
    /\ LET r == GetCachedAnnotation(files, t, q)
       IN  IF r.ok THEN pc' = "returned" /\ ret' = r.val
           ELSE pc' = "crashed" /\ ret' = None
    /\ UNCHANGED files
    /\ UNCHANGED <<cache_dir, xvars>>

-----------------------------------------------------------------------------
(* Specifications *)

(* enrichment runs, one after another, each of which may be killed *)
Next ==
    \/ \E rs \in RecordLists, t \in Tickers, d \in Delays : AnnotateStart(rs, t, d)
    \/ AnnotateReturn
    \/ CacheLookup
    \/ \E o \in DDGSOutcomes : SearchNews(o)
    \/ AnnotateSummarise
    \/ \E resp \in LLMResponses : LLMAttempt(resp)
    \/ LLMBackoff
    \/ AssignEvent
    \/ AnnotateSave
    \/ SaveDump
    \/ Pace
    \/ Kill

Spec == Init /\ [][Next]_vars

(* direct calls of the summariser, for every retries value *)
NewsLists == {News0, <<NewsItem(1)>>, News4}

NextSumm ==
    \/ \E items \in NewsLists, r \in 0..MaxRetries : SummariseDirect(items, r)
    \/ \E resp \in LLMResponses : LLMAttempt(resp)
    \/ LLMBackoff

SpecSumm == Init /\ [][NextSumm]_vars

(* direct calls of the store *)
NextCache ==
    \/ \E t \in Tickers, rec \in PutRecs : SaveDirect(t, rec)
    \/ SaveDump
    \/ \E t \in Tickers, q \in QuerySpans : GetDirect(t, q)

SpecCache == Init /\ [][NextCache]_vars

-----------------------------------------------------------------------------
(* Helpers for reading the histories *)

LogAt(e, j) == {p \in DOMAIN log : log[p].e = e /\ log[p].i = j}

ExternalAt(j) == LogAt("news", j) \cup LogAt("llm", j)

External == {p \in DOMAIN log : log[p].e \in {"news", "llm"}}

HitSpans == {j \in DOMAIN recs : \E p \in LogAt("get", j) : log[p].out = "hit"}

MissSpans == {j \in DOMAIN recs : \E p \in LogAt("get", j) : log[p].out = "miss"}

FailedNewsSpans == {j \in DOMAIN recs : \E p \in LogAt("news", j) : log[p].failed}

Calls == {p \in DOMAIN slog : slog[p].e = "call"}

TextCalls == {p \in Calls : slog[p].out = "text"}

StoreHas(fs, t, k) == fs[t].kind = "json" /\ k \in DOMAIN fs[t].data

-----------------------------------------------------------------------------
(* C1, auxiliary definitions *)

C1_LookupOfStoredSpan ==
    /\ pc = "loop"
    /\ idx <= Len(recs)
    /\ pc' # "killed"
    /\ StoreHas(files, ticker, SpanKey(recs[idx]))

C1_ServedFromStore ==
    LET stored == files[ticker].data[SpanKey(recs[idx])]
    IN  /\ pc' = "loop"
        /\ idx' = idx + 1
        /\ "event" \in DOMAIN recs'[idx]
        /\ "headlines" \in DOMAIN recs'[idx]
        /\ recs'[idx]["event"] = stored.event
        /\ recs'[idx]["headlines"] = stored.headlines
        /\ files' = files
        /\ \A p \in DOMAIN log' : log'[p].i = idx => log'[p].e = "get"

C1_HitsMakeNoCalls == \A j \in HitSpans : ExternalAt(j) = {}

(* C1: enrichment resumability.  When the loop of annotate_events reaches a  *)
(* span whose key has a record in the ticker's store, that step fills the    *)
(* span's event and headlines from the stored record, moves on to the next   *)
(* span and leaves the store alone; and no span served from the store has a  *)
(* News Lookup or Summarizer call anywhere in the run.                       *)
C1_Resumability ==
    [][(C1_LookupOfStoredSpan => C1_ServedFromStore) /\ C1_HitsMakeNoCalls']_vars

(* a second run has returned after serving a span from the record the first run stored *)
C1_Witness ==
    /\ pc = "returned"
    /\ caller = "annotate"
    /\ runs = 2
    /\ \E j \in HitSpans : StoreHas(pre, ticker, SpanKey(recs[j]))
    /\ MissSpans # {}

-----------------------------------------------------------------------------
(* C2, auxiliary definitions *)

PutReturned == pc = "returned" /\ caller = "direct" /\ Len(log) = 1 /\ log[1].e = "put"

SameBounds(q, rec) == q.start_date = rec.start_date /\ q.end_date = rec.end_date

PutEvent(rec) == IF "event" \in DOMAIN rec THEN rec["event"] ELSE ""

PutHeadlines(rec) == IF "headlines" \in DOMAIN rec THEN rec["headlines"] ELSE <<>>

(* C2: cache round-trip.  When save_annotation(t, rec) has returned, a       *)
(* lookup with any query span of the same start_date and end_date gives      *)
(* exactly the event and headlines that were put, whatever the query's pct,  *)
(* price and days; a lookup with other bounds gives what it gave before the  *)
(* put.                                                                      *)
C2_RoundTrip ==
    PutReturned =>
        \A q \in QuerySpans :
            LET got == GetCachedAnnotation(files, ticker, q)
            IN  /\ got.ok
                /\ IF SameBounds(q, arg)
                   THEN /\ got.val.some
                        /\ got.val.val.event = PutEvent(arg)
                        /\ got.val.val.headlines = PutHeadlines(arg)
                        /\ DOMAIN got.val.val = {"event", "headlines"}
                   ELSE got.val = GetCachedAnnotation(pre, ticker, q).val

(* a put that replaced the record of a span with the same bounds and other   *)
(* pct, price and days, in a store that also holds another key               *)
C2_Witness ==
    /\ PutReturned
    /\ StoreHas(pre, ticker, SpanKey(arg))
    /\ pre[ticker].data[SpanKey(arg)] # files[ticker].data[SpanKey(arg)]
    /\ Cardinality(DOMAIN files[ticker].data) >= 2
    /\ \E q \in QuerySpans : SameBounds(q, arg) /\ q.pct # arg.pct /\ q.days # arg.days

-----------------------------------------------------------------------------
(* C3: a read of a store whose file is missing or is not parseable is a      *)
(* cache miss: the lookup raises nothing and the run goes on to a fresh      *)
(* lookup for the span.                                                      *)
C3_UnreadableStoreIsMiss ==
    \A p \in DOMAIN log :
        (log[p].e = "get" /\ log[p].file \in {"missing", "garbage"})
            => (log[p].out = "miss" /\ pc # "crashed")

-----------------------------------------------------------------------------
(* C4, auxiliary definitions *)

Assigned(j) == j < idx \/ (j = idx /\ pc \in {"save", "dump", "pace"})

Written(j) == LogAt("put", j) # {}

(* C4: a News Lookup failure never aborts the run.  For every span whose     *)
(* search raised: headlines = [], the external model was not called, event   *)
(* is the "<signed pct>% move" label once assigned, the record with that     *)
(* label and no headlines is in the store once written, the run has not      *)
(* crashed, and a run that returned has processed every span of the list.    *)
C4_NewsFailureDegrades ==
    /\ FailedNewsSpans # {} => pc # "crashed"
    /\ \A j \in FailedNewsSpans :
          /\ "headlines" \in DOMAIN recs[j]
          /\ recs[j]["headlines"] = <<>>
          /\ LogAt("llm", j) = {}
          /\ (j = idx /\ pc = "assign") => ret = None
          /\ Assigned(j) =>
                recs[j]["event"] = FmtSigned1(recs[j].pct, recs[j].pct_neg) \o "% move"
          /\ (Written(j) /\ files[ticker].kind = "json") =>
                /\ SpanKey(recs[j]) \in DOMAIN files[ticker].data
                /\ files[ticker].data[SpanKey(recs[j])] =
                       [event |-> recs[j]["event"], headlines |-> <<>>]
          /\ (j < idx \/ (j = idx /\ pc = "pace")) => Written(j)
    /\ (pc = "returned" /\ caller = "annotate") =>
          \A j \in DOMAIN recs : "event" \in DOMAIN recs[j] /\ "headlines" \in DOMAIN recs[j]

(* the search failed for the first of two spans and the run returned with    *)
(* the second span looked up afresh too                                      *)
C4_Witness ==
    /\ pc = "returned"
    /\ Len(recs) = 2
    /\ 1 \in FailedNewsSpans
    /\ LogAt("news", 2) # {}
    /\ recs[1]["event"] = "+5.2% move"

-----------------------------------------------------------------------------
(* C5, auxiliary definitions *)

SummariseReturned == pc = "returned" /\ caller = "direct" /\ runs > 0

(* C5: bounded retry.  For non-empty headlines one summarise call contacts   *)
(* the completion service at most `retries` times, an attempt that yields a  *)
(* non-empty content is the last one, and when all `retries` attempts fail   *)
(* the call returns None.                                                    *)
C5_BoundedRetry ==
    news_items # <<>> =>
        /\ Cardinality(Calls) <= (IF retries > 0 THEN retries ELSE 0)
        /\ \A p \in Calls : slog[p].attempt = Cardinality({q \in Calls : q <= p})
        /\ \A p \in TextCalls : p = Len(slog) /\ pc \notin {"attempt", "backoff"}
        /\ (SummariseReturned /\ TextCalls = {}) =>
              /\ ret = None
              /\ Cardinality(Calls) = (IF retries > 0 THEN retries ELSE 0)
        /\ (SummariseReturned /\ TextCalls # {}) => ret.some

(* three attempts, all failed in different ways, and the call returned None *)
C5_Witness ==
    /\ SummariseReturned
    /\ news_items # <<>>
    /\ retries = 3
    /\ Cardinality(Calls) = 3
    /\ TextCalls = {}
    /\ {slog[p].out : p \in Calls} = {"transport_error", "malformed", "empty"}
    /\ ret = None

-----------------------------------------------------------------------------
(* C6: after every failed attempt of any kind (transport error, malformed    *)
(* response, empty content) that is not the final one the fixed backoff wait *)
(* comes next; after a failed final attempt there is no wait, a diagnostic   *)
(* is emitted and the result is None.  (While the process is in the wait the *)
(* failed attempt is the last entry of the history.)                         *)
C6_BackoffAfterEveryFailure ==
    \A p \in Calls \ TextCalls :
        IF p = Len(slog)
        THEN pc = "backoff" /\ slog[p].attempt < retries
        ELSE IF slog[p].attempt < retries
        THEN slog[p + 1].e = "backoff" /\ slog[p + 1].secs = BackoffSecs
        ELSE slog[p + 1].e = "diagnostic"

-----------------------------------------------------------------------------
(* C7: summariser short-circuit.  A summarise call with an empty headlines   *)
(* list returns None and never reaches the completion service, for every     *)
(* retries value.                                                            *)
C7_ShortCircuit ==
    (caller = "direct" /\ news_items = <<>>) =>
        /\ pc \notin {"attempt", "backoff"}
        /\ Calls = {}
        /\ LogAt("llm", idx) = {}
        /\ runs > 0 => (pc = "returned" /\ ret = None)

(* a call with no headlines and three retries has returned *)
C7_Witness ==
    /\ SummariseReturned
    /\ news_items = <<>>
    /\ retries = 3
    /\ ret = None

-----------------------------------------------------------------------------
(* C8, auxiliary definitions *)

PutBefore(j, p) == \E q \in LogAt("put", j) : q < p

(* C8: persist-before-next.  For every cache-miss span the record is written *)
(* after the span's News Lookup and Summarizer calls and before any store    *)
(* lookup, external call or pacing delay that follows the span; right after  *)
(* the write the store holds the span's {event, headlines} under its key.    *)
C8_PersistBeforeNext ==
    /\ \A j \in MissSpans :
          /\ \A p \in DOMAIN log : log[p].i > j => PutBefore(j, p)
          /\ \A p \in LogAt("delay", j) : PutBefore(j, p)
          /\ \A q \in LogAt("put", j) :
                /\ \E p \in LogAt("news", j) : p < q
                /\ \A p \in ExternalAt(j) : p < q
          /\ j < idx => Written(j)
    /\ pc = "pace" =>
          /\ Written(idx)
          /\ StoreHas(files, ticker, SpanKey(recs[idx]))
          /\ files[ticker].data[SpanKey(recs[idx])] =
                 [event |-> recs[idx]["event"], headlines |-> recs[idx]["headlines"]]

(* two cache-miss spans: the first was written, the second is being searched *)
C8_Witness ==
    /\ pc = "attempt"
    /\ idx = 2
    /\ MissSpans = {1, 2}
    /\ LogAt("llm", 1) # {}
    /\ LogAt("put", 1) # {}
    /\ LogAt("delay", 1) # {}

-----------------------------------------------------------------------------
(* C9, auxiliary definitions *)

Readable(f) == f.kind \in {"missing", "json"}

(* C9: early termination.  If the process is killed at any point of a run,   *)
(* a write in progress included, the store left behind is readable and holds *)
(* every record it held before the run and the record of every span whose    *)
(* processing completed before the kill.                                     *)
C9_KillLeavesStoreIntact ==
    (pc = "killed" /\ Readable(pre[ticker])) =>
        /\ Readable(files[ticker])
        /\ \A k \in DOMAIN pre[ticker].data :
              StoreHas(files, ticker, k) /\ files[ticker].data[k] = pre[ticker].data[k]
        /\ \A j \in 1..(idx - 1) :
              /\ StoreHas(files, ticker, SpanKey(recs[j]))
              /\ files[ticker].data[SpanKey(recs[j])] =
                     [event |-> recs[j]["event"], headlines |-> recs[j]["headlines"]]

-----------------------------------------------------------------------------
(* C10: rate-limit pacing.  Within one run, between an external call made    *)
(* for one span and an external call made for a later span there is at least *)
(* one pacing delay of the configured length.                                *)
C10_PacingBetweenSpans ==
    \A p \in External, q \in External :
        log[p].i < log[q].i =>
            \E m \in DOMAIN log :
                /\ p < m
                /\ m < q
                /\ log[m].e = "delay"
                /\ log[m].secs = delay

(* a run with the non-default delay made external calls for two spans *)
C10_Witness ==
    /\ pc = "returned"
    /\ delay = DefaultDelay + 1
    /\ LogAt("llm", 1) # {}
    /\ LogAt("llm", 2) # {}

-----------------------------------------------------------------------------
(* C11, auxiliary definitions *)

Delayed == {m \in DOMAIN log : log[m].e = "delay"}

(* the spans of one segmentation have pairwise different bounds *)
DistinctKeys(rs) == \A a, b \in DOMAIN rs : SpanKey(rs[a]) = SpanKey(rs[b]) => a = b

(* C11: pacing delays occur only between spans requiring external calls.     *)
(* Every delay of a run that has returned has an external call before it and *)
(* an external call after it in that run; no delay follows the last span and *)
(* no cache-hit span incurs one (for a list of spans with different bounds). *)
C11_DelaysOnlyBetweenCalls ==
    DistinctKeys(recs) =>
        \A m \in Delayed :
            /\ log[m].i < Len(recs)
            /\ log[m].i \notin HitSpans
            /\ \E p \in External : p < m
            /\ (pc = "returned" /\ caller = "annotate") => \E q \in External : m < q

-----------------------------------------------------------------------------
(* C12: annotation records are write-once.  A record that the store of a     *)
(* ticker held when an enrichment run started is still there, unchanged,     *)
(* whenever that file is not being rewritten, and while it is being          *)
(* rewritten the store about to be written holds it; the stores of the       *)
(* other tickers are as they were.                                           *)
C12_WriteOnce ==
    caller = "annotate" =>
        \A t \in DOMAIN pre :
            /\ t # ticker => files[t] = pre[t]
            /\ \A k \in DOMAIN pre[t].data :
                  IF pc = "dump" /\ t = ticker
                  THEN k \in DOMAIN pending /\ pending[k] = pre[t].data[k]
                  ELSE StoreHas(files, t, k) /\ files[t].data[k] = pre[t].data[k]

-----------------------------------------------------------------------------
(* cache.py: the cache directory as a set of file names, and clear_cache *)

(* A file name is a sequence of characters.  The characters of a ticker are  *)
(* kept one by one; a date, "annotations.json" and ".csv" are kept whole:    *)
(* they hold no "_" and never take part in the literal part of a pattern.    *)
Chars(t) ==
    CASE t = "XYZ" -> <<"X", "Y", "Z">>
      [] t = "ABC" -> <<"A", "B", "C">>
      [] t = "XYZ_W" -> <<"X", "Y", "Z", "_", "W">>
      [] t = "" -> <<>>

(* CACHE_DIR / f"{ticker}_{start}_{end}.csv" *)
PricesPath(t, start, end) == Chars(t) \o <<"_", start, "_", end, ".csv">>

(* CACHE_DIR / f"{ticker}_annotations.json" *)
AnnotationsPath(t) == Chars(t) \o <<"_", "annotations.json">>

PriceKey(t, start, end) == [ticker |-> t, start |-> start, end |-> end]

(* the names in the cache directory *)
Listing(fs, ps) ==
    {AnnotationsPath(t) : t \in {u \in DOMAIN fs : fs[u].kind # "missing"}}
        \cup {PricesPath(k.ticker, k.start, k.end) : k \in ps}

(* pattern = f"{ticker}_*" if ticker else "*": the literal text before the * *)
GlobPrefix(a) == IF Truthy(a) THEN Chars(a.val) \o <<"_">> ELSE <<>>

(* a name matches "<prefix>*" when it starts with the prefix *)
GlobMatch(prefix, name) ==
    /\ Len(name) >= Len(prefix)
    /\ SubSeq(name, 1, Len(prefix)) = prefix

(* `if not CACHE_DIR.exists(): return 0`, else CACHE_DIR.glob(pattern) *)
Matched(a) ==
    IF cache_dir
    THEN {n \in Listing(files, prices) : GlobMatch(GlobPrefix(a), n)}
    ELSE {}

(* clear_cache(ticker): 0 when the directory does not exist, else every name *)
(* matching the pattern is unlinked and counted                              *)
ClearCache(a) ==
    /\ runs < MaxCalls
    /\ FreshProcess("clear")
    /\ arg' = a
    /\ pre_dir' = Listing(files, prices)
    /\ LET matched == Matched(a)
       IN  /\ files' = [t \in DOMAIN files |->
                           IF AnnotationsPath(t) \in matched THEN FileMissing ELSE files[t]]
           /\ prices' = {k \in prices : PricesPath(k.ticker, k.start, k.end) \notin matched}
           /\ ret' = Some(Cardinality(matched))
    /\ pc' = "returned"
    /\ UNCHANGED <<cache_dir, ticker, recs, idx, delay, cached_count, news_items,
                   retries, attempt, pending, slog>>
    /\ UNCHANGED <<segvars, procs, chartvars>>

(* save_prices(t, start, end, df): the directory is made, the file written *)
SavePrices(t, start, end) ==
    /\ DirectStart
    /\ cache_dir' = TRUE
    /\ prices' = prices \cup {PriceKey(t, start, end)}
    /\ pc' = "returned"
    /\ ret' = None
    /\ UNCHANGED <<files, ticker, pending, arg, pre_dir>>
    /\ UNCHANGED <<segvars, procs, chartvars>>

(* the tickers, date ranges and stores of the directory under clear_cache *)
ClearTickers == {"XYZ", "ABC", "XYZ_W"}

Ranges == {[start |-> "2023-01-01", end |-> "2023-12-31"],
           [start |-> "2024-01-01", end |-> "2024-06-30"]}

PriceKeys == {PriceKey("XYZ", r.start, r.end) : r \in Ranges}
                 \cup {PriceKey(t, "2023-01-01", "2023-12-31") : t \in ClearTickers}

Store1 == SetKey(EmptyDict, SpanKey(SpanA), AnnotationOf(SpanA))

ClearArgs == {None} \cup {Some(t) : t \in ClearTickers \cup {""}}

(* a directory that earlier saves have filled, or that was never made *)
InitClear ==
    /\ files \in [ClearTickers -> {FileMissing, FileJson(Store1)}]
    /\ prices \in SUBSET PriceKeys
    /\ cache_dir \in IF Listing(files, prices) = {} THEN BOOLEAN ELSE {TRUE}
    /\ pre = files
    /\ pre_dir = {}
    /\ procs = <<>>
    /\ ChartIdle
    /\ pc = "idle"
    /\ caller = "none"
    /\ ticker = "XYZ"
    /\ recs = <<>>
    /\ idx = 0
    /\ delay = 0
    /\ cached_count = 0
    /\ news = <<>>
    /\ news_items = <<>>
    /\ retries = 0
    /\ attempt = 0
    /\ ret = None
    /\ pending = EmptyDict
    /\ arg = EmptyDict
    /\ log = <<>>
    /\ slog = <<>>
    /\ runs = 0
    /\ SegIdle

NextClear ==
    \/ \E a \in ClearArgs : ClearCache(a)
    \/ \E k \in PriceKeys : SavePrices(k.ticker, k.start, k.end)
    \/ \E t \in ClearTickers : SaveDirect(t, SpanA)
    \/ SaveDump

SpecClear == InitClear /\ [][NextClear]_vars

(* C13, auxiliary definitions *)
(* the names of the files that belong to ticker t *)
OwnNames(t) == {AnnotationsPath(t)} \cup {PricesPath(t, r.start, r.end) : r \in Ranges}

Cleared == caller = "clear" /\ pc = "returned"

(* C13: clear(instrument) removes exactly the annotation and price files of *)
(* that instrument, which are in the directory when it starts, and returns   *)
(* their number; every other file stays.  clear() removes every file and     *)
(* returns their number (an empty ticker is no ticker).  On an empty or      *)
(* absent directory it returns 0 and changes nothing.                        *)
C13_ClearRemovesExactlyOwn ==
    Cleared =>
        LET target == IF Truthy(arg) THEN pre_dir \cap OwnNames(arg.val) ELSE pre_dir
        IN  /\ Listing(files, prices) = pre_dir \ target
            /\ ret = Some(Cardinality(target))
            /\ \A t \in DOMAIN files :
                  AnnotationsPath(t) \notin target => files[t] = pre[t]

-----------------------------------------------------------------------------
(* data.py: the move segmenter *)

(* The Close column is a sequence of prices, one per trading day; day i has  *)
(* the date DateOf(i).  Prices are whole numbers; the daily and cumulative   *)
(* changes are the doubles the code computes from them, so that a daily      *)
(* change of exactly noise_pct, or a cumulative change half-way between two  *)
(* hundredths, falls to the side the float arithmetic puts it.               *)
DateOf(i) ==
    CASE i = 1 -> "2024-01-02" [] i = 2 -> "2024-01-03" [] i = 3 -> "2024-01-04"
      [] i = 4 -> "2024-01-05" [] i = 5 -> "2024-01-08" [] i = 6 -> "2024-01-09"
      [] i = 7 -> "2024-01-10" [] i = 8 -> "2024-01-11"

(* daily_pct = df["Close"].pct_change() * 100: NaN on the first day *)
IsNaN(closes, i) == i = 1

Delta(closes, i) == closes[i] - closes[i - 1]

(* mutant: a day without change is not skipped *)
Skipped_OnlyNaN(closes, i) == IsNaN(closes, i)

(* `if pct_val == 0 or pd.isna(pct_val): continue` *)
Skipped(closes, i) == IsNaN(closes, i) \/ Delta(closes, i) = 0

(* sign = 1 if pct_val > 0 else -1 *)
SignOf(closes, i) == IF Delta(closes, i) > 0 THEN 1 ELSE -1

(* abs(pct_val) of day i > 1: pct_change() is close / previous close - 1, *)
(* then * 100                                                            *)
AbsDailyPct(closes, i) ==
    LET q == FDiv(closes[i], closes[i - 1])
        one == Dy(<<1>>, 0)
    IN  FMul(IF closes[i] >= closes[i - 1] THEN FSub(q, one) ELSE FSub(one, q), 100)

(* abs(pct_val) <= noise_pct, noise in hundredths of a percent.  The double *)
(* pct_val is within 10^-13 of the exact change, and an exact change that   *)
(* differs from noise_pct differs by 1 / (100 * previous close) or more, so *)
(* the comparison of the doubles is the comparison of the exact values      *)
(* unless these are equal; then the rounding of pct_val decides.            *)
IsNoise(closes, i, noise) ==
    LET change == Abs(Delta(closes, i)) * 10000
        limit == noise * closes[i - 1]
    IN  IF change = limit
        THEN ~DyLess(FDiv(noise, 100), AbsDailyPct(closes, i))
        ELSE change < limit

(* round(((close_end - close_before) / close_before) * 100, 2) in           *)
(* hundredths.  The double pct is within 10^-13 of the exact change, and an  *)
(* exact change that is not half-way between two hundredths is away from     *)
(* the half-way point by 1 / (200 * close_before) or more, so it is rounded  *)
(* as the exact value is; a change exactly half-way goes to the side on      *)
(* which the double lies.                                                    *)
RoundedPct(close_before, close_end) ==
    LET d == close_end - close_before
        q == (Abs(d) * 10000) \div close_before
        r == (Abs(d) * 10000) % close_before
        h == IF 2 * r = close_before
             THEN RoundScaled(FMul(FDiv(Abs(d), close_before), 100), 100)
             ELSE IF 2 * r < close_before THEN q ELSE q + 1
    IN  IF d < 0 THEN -h ELSE h

(* mutant: days is the distance between the two bounds *)
MakeSpan_DaysExclusive(closes, start, end) ==
    LET close_before == closes[start - 1]
        close_end == closes[end]
    IN  [MkSpan(DateOf(start), DateOf(end), close_end,
                RoundedPct(close_before, close_end),
                end - start)
            EXCEPT !.pct_neg = close_end < close_before]

(* _make_span(df, start, end): round() keeps the sign of a fall that it *)
(* rounds to zero                                                       *)
MakeSpan(closes, start, end) ==
    LET close_before == closes[start - 1]
        close_end == closes[end]
    IN  [MkSpan(DateOf(start), DateOf(end), close_end,
                RoundedPct(close_before, close_end),
                end - start + 1)
            EXCEPT !.pct_neg = close_end < close_before]

(* the local variables of the loop *)
LoopState(sp, ss, ps, pi) ==
    [spans |-> sp, span_start |-> ss, prev_sign |-> ps, prev_idx |-> pi]

(* mutant: a reversal opens a new span but leaves prev_sign as it was *)
SegStep_KeepsSign(st, closes, i, noise) ==
    IF Skipped(closes, i) THEN st
    ELSE LET sign == SignOf(closes, i)
         IN  IF sign # st.prev_sign /\ st.prev_sign # 0
             THEN IF IsNoise(closes, i, noise)
                  THEN [st EXCEPT !.prev_idx = i]
                  ELSE LoopState(IF st.span_start.some
                                 THEN Append(st.spans,
                                             MakeSpan(closes, st.span_start.val, st.prev_idx))
                                 ELSE st.spans,
                                 Some(i), st.prev_sign, i)
             ELSE LoopState(st.spans,
                            IF st.span_start.some THEN st.span_start ELSE Some(i),
                            sign, i)

(* mutant: a day without change moves the end of the open span *)
SegStep_FlatExtends(st, closes, i, noise) ==
    IF IsNaN(closes, i) THEN st
    ELSE IF Delta(closes, i) = 0 THEN [st EXCEPT !.prev_idx = i]
    ELSE LET sign == SignOf(closes, i)
         IN  IF sign # st.prev_sign /\ st.prev_sign # 0
             THEN IF IsNoise(closes, i, noise)
                  THEN [st EXCEPT !.prev_idx = i]
                  ELSE LoopState(IF st.span_start.some
                                 THEN Append(st.spans,
                                             MakeSpan(closes, st.span_start.val, st.prev_idx))
                                 ELSE st.spans,
                                 Some(i), sign, i)
             ELSE LoopState(st.spans,
                            IF st.span_start.some THEN st.span_start ELSE Some(i),
                            sign, i)

(* one iteration of `for idx, pct_val in daily_pct.items()` *)
SegStep(st, closes, i, noise) ==
    IF Skipped(closes, i) THEN st
    ELSE LET sign == SignOf(closes, i)
         IN  IF sign # st.prev_sign /\ st.prev_sign # 0
             THEN IF IsNoise(closes, i, noise)
                  THEN [st EXCEPT !.prev_idx = i]
                  ELSE LoopState(IF st.span_start.some
                                 THEN Append(st.spans,
                                             MakeSpan(closes, st.span_start.val, st.prev_idx))
                                 ELSE st.spans,
                                 Some(i), sign, i)
             ELSE LoopState(st.spans,
                            IF st.span_start.some THEN st.span_start ELSE Some(i),
                            sign, i)

(* the loop from day i on *)
RECURSIVE WalkDays(_, _, _, _)
WalkDays(st, closes, i, noise) ==
    IF i > Len(closes) THEN st
    ELSE WalkDays(SegStep(st, closes, i, noise), closes, i + 1, noise)

(* `if span_start is not None: spans.append(_make_span(df, span_start, prev_idx))` *)
CloseLast(st, closes) ==
    IF st.span_start.some
    THEN Append(st.spans, MakeSpan(closes, st.span_start.val, st.prev_idx))
    ELSE st.spans

(* mutant: the threshold is compared with the signed move *)
FilterSpans_Signed(sp, min) == SelectSeq(sp, LAMBDA s : s.pct >= min)

(* spans = [s for s in spans if abs(s["pct"]) >= min_pct] *)
FilterSpans(sp, min) == SelectSeq(sp, LAMBDA s : Abs(s.pct) >= min)

(* x goes behind every element whose key is not smaller: equal keys keep *)
(* their order                                                           *)
RECURSIVE InsertDesc(_, _)
InsertDesc(sorted, x) ==
    IF sorted = <<>> THEN <<x>>
    ELSE IF Abs(Head(sorted).pct) >= Abs(x.pct)
         THEN <<Head(sorted)>> \o InsertDesc(Tail(sorted), x)
         ELSE <<x>> \o sorted

(* mutant: the sort is reversed after an ascending sort, equal keys swap *)
RECURSIVE RankSpans_Unstable(_)
RankSpans_Unstable(sp) ==
    IF sp = <<>> THEN <<>>
    ELSE LET rest == RankSpans_Unstable(SubSeq(sp, 1, Len(sp) - 1))
             x == sp[Len(sp)]
             before == SelectSeq(rest, LAMBDA s : Abs(s.pct) > Abs(x.pct))
             after == SelectSeq(rest, LAMBDA s : Abs(s.pct) <= Abs(x.pct))
         IN  before \o <<x>> \o after

(* spans.sort(key=lambda s: abs(s["pct"]), reverse=True): stable *)
RECURSIVE RankSpans(_)
RankSpans(sp) ==
    IF sp = <<>> THEN <<>>
    ELSE InsertDesc(RankSpans(SubSeq(sp, 1, Len(sp) - 1)), sp[Len(sp)])

(* s[:n] *)
Slice(s, n) ==
    IF n >= 0 THEN SubSeq(s, 1, IF n < Len(s) THEN n ELSE Len(s))
    ELSE SubSeq(s, 1, Len(s) + n)

(* `if top_n is not None: spans = spans[:top_n]` *)
Truncate(sp, top) == IF top.some THEN Slice(sp, top.val) ELSE sp

(* what is done after the loop *)
Finish(st, closes, min, top) ==
    Truncate(RankSpans(FilterSpans(CloseLast(st, closes), min)), top)

(* find_extreme_moves(df, min_pct, top_n, noise_pct) *)
FindExtremeMoves(closes, min, top, noise) ==
    Finish(WalkDays(LoopState(<<>>, None, 0, 0), closes, 1, noise), closes, min, top)

(* the segmenter, one loop iteration at a time *)

(* one iteration of the loop over daily_pct *)
SegDay ==
    /\ pc = "seg"
    /\ day <= Len(df)
    /\ LET st == SegStep(LoopState(spans, span_start, prev_sign, prev_idx),
                         df, day, noise_pct)
       IN  /\ spans' = st.spans
           /\ span_start' = st.span_start
           /\ prev_sign' = st.prev_sign
           /\ prev_idx' = st.prev_idx
    /\ day' = day + 1
    /\ UNCHANGED <<pc, df, min_pct, top_n, noise_pct, runvars>>

(* after the loop: close the last span, filter, rank, truncate, return *)
SegFinish ==
    /\ pc = "seg"
    /\ day > Len(df)
    /\ spans' = Finish(LoopState(spans, span_start, prev_sign, prev_idx),
                       df, min_pct, top_n)
    /\ pc' = "returned"
    /\ UNCHANGED <<df, min_pct, top_n, noise_pct, day, span_start, prev_sign, prev_idx,
                   runvars>>

(* the inputs of the segmenter *)
MaxDays == 4

Closes == {940, 1000, 1005, 1050}

(* daily changes of about +2, -0.5, +3 and -6 percent *)
ExampleSeries == <<10000, 10200, 10149, 10453, 9826>>

(* the series of the segmentations: every short series over Closes, the    *)
(* example, and three more:                                                 *)
(*   1000, 1005, 996: an up day of 0.5 percent, then a down day of about    *)
(*                    0.9 percent;                                          *)
(*   1000, 1100, 1089: an up day of 10 percent, then a down day of exactly  *)
(*                    1 percent;                                            *)
(*   4000, 3941: a down day of exactly 1.475 percent.                       *)
SeriesSet ==
    SeqsUpTo(Closes, MaxDays)
        \cup {ExampleSeries, <<1000, 1005, 996>>, <<1000, 1100, 1089>>, <<4000, 3941>>}

MinPcts == {-100, 0, 300, 500}

TopNs == {None, Some(0), Some(1), Some(2)}

NoisePcts == {0, 100}

(* find_extreme_moves has been called and is about to enter its loop *)
InitSeg ==
    /\ df \in SeriesSet
    /\ min_pct \in MinPcts
    /\ top_n \in TopNs
    /\ noise_pct \in NoisePcts
    /\ day = 1
    /\ spans = <<>>
    /\ span_start = None
    /\ prev_sign = 0
    /\ prev_idx = 0
    /\ pc = "seg"
    /\ caller = "segment"
    /\ files = [t \in Tickers |-> FileMissing]
    /\ pre = [t \in Tickers |-> FileMissing]
    /\ ticker = "XYZ"
    /\ recs = <<>>
    /\ idx = 0
    /\ delay = 0
    /\ cached_count = 0
    /\ news = <<>>
    /\ news_items = <<>>
    /\ retries = 0
    /\ attempt = 0
    /\ ret = None
    /\ pending = EmptyDict
    /\ arg = EmptyDict
    /\ log = <<>>
    /\ slog = <<>>
    /\ runs = 0
    /\ cache_dir = FALSE
    /\ prices = {}
    /\ pre_dir = {}
    /\ procs = <<>>
    /\ ChartIdle

NextSeg ==
    \/ SegDay
    \/ SegFinish

SpecSeg == InitSeg /\ [][NextSeg]_vars

-----------------------------------------------------------------------------
(* Helpers for reading a segmentation *)

DayOf(date) == CHOOSE i \in 1..8 : DateOf(i) = date

FirstDay(s) == DayOf(s.start_date)
LastDay(s) == DayOf(s.end_date)

Segmented == caller = "segment" /\ pc = "returned"

(* the segmentation of the series without filter and cap, in date order *)
RawSpans == CloseLast(WalkDays(LoopState(<<>>, None, 0, 0), df, 1, noise_pct), df)

(* C14: with noise_pct = 0 and a series of at least two points, all trading *)
(* days in [start_date, end_date] of a returned span have a daily change of  *)
(* strictly the same sign.                                                   *)
C14_StrictlySameSign ==
    (Segmented /\ noise_pct = 0 /\ Len(df) >= 2) =>
        \A j \in DOMAIN spans :
            \A i \in FirstDay(spans[j])..LastDay(spans[j]) :
                /\ df[i] # df[i - 1]
                /\ (df[i] > df[i - 1]) <=> (df[FirstDay(spans[j])] > df[FirstDay(spans[j]) - 1])

(* C14, amended: with noise_pct = 0, the first and the last day of a returned *)
(* span have a change of the same sign, and every day between them has a      *)
(* change of that sign or no change at all.                                   *)
C14_SameSignOrFlat ==
    (Segmented /\ noise_pct = 0 /\ Len(df) >= 2) =>
        \A j \in DOMAIN spans :
            LET a == FirstDay(spans[j])
                b == LastDay(spans[j])
            IN  /\ 2 <= a /\ a <= b /\ b <= Len(df)
                /\ df[a] # df[a - 1]
                /\ df[b] # df[b - 1]
                /\ \A i \in a..b :
                      \/ df[i] = df[i - 1]
                      \/ (df[i] > df[i - 1]) <=> (df[a] > df[a - 1])

(* a returned span that holds a day without change between two days of rise *)
C14_Witness ==
    /\ Segmented /\ noise_pct = 0
    /\ \E j \in DOMAIN spans :
          \E i \in FirstDay(spans[j])..LastDay(spans[j]) :
              /\ df[i] = df[i - 1]
              /\ FirstDay(spans[j]) < i /\ i < LastDay(spans[j])

(* C15, auxiliary definitions *)
(* the direction of a span: the sign of the change of its first day *)
Direction(s) == IF df[FirstDay(s)] > df[FirstDay(s) - 1] THEN 1 ELSE -1

(* no other returned span lies between the spans at positions j and k *)
NextInTime(j, k) ==
    /\ LastDay(spans[j]) < FirstDay(spans[k])
    /\ ~\E m \in DOMAIN spans :
          /\ LastDay(spans[j]) < FirstDay(spans[m])
          /\ LastDay(spans[m]) < FirstDay(spans[k])

(* every day strictly between the two spans is a day without change *)
NothingBetween(j, k) ==
    \A i \in (LastDay(spans[j]) + 1)..(FirstDay(spans[k]) - 1) : df[i] = df[i - 1]

(* C15: with noise_pct = 0 and a series of at least two points, for any      *)
(* min_pct and top_n, two returned spans that are adjacent in chronological  *)
(* order have opposite directions.                                           *)
C15_AdjacentOpposite ==
    (Segmented /\ noise_pct = 0 /\ Len(df) >= 2) =>
        \A j, k \in DOMAIN spans :
            NextInTime(j, k) => Direction(spans[j]) # Direction(spans[k])

(* C15, amended: with noise_pct = 0, two returned spans that are adjacent in *)
(* chronological order and have no day of non-zero change between them have  *)
(* opposite directions.                                                      *)
C15_ContiguousOpposite ==
    (Segmented /\ noise_pct = 0 /\ Len(df) >= 2) =>
        \A j, k \in DOMAIN spans :
            (NextInTime(j, k) /\ NothingBetween(j, k))
                => Direction(spans[j]) # Direction(spans[k])

(* two returned spans follow each other with nothing between them, while *)
(* another span of the series has not been returned                      *)
C15_Witness ==
    /\ Segmented /\ noise_pct = 0
    /\ Len(spans) < Len(RawSpans)
    /\ \E j, k \in DOMAIN spans :
          /\ NextInTime(j, k) /\ NothingBetween(j, k)
          /\ Direction(spans[j]) # Direction(spans[k])

(* C16, auxiliary definitions *)
SetOf(s) == {s[j] : j \in DOMAIN s}

(* the thresholds the result is compared under *)
Thresholds == MinPcts \cup {-1, 50, 476, 638, 1170}

(* C16: monotonic filtering.  For the same series, noise_pct and top_n, a    *)
(* larger min_pct returns a subset of what a smaller one returns; a negative *)
(* min_pct returns what min_pct = 0 returns, and that rejects no span.       *)
C16_MonotonicFiltering ==
    Segmented =>
        /\ \A m \in Thresholds :
              /\ m >= min_pct => SetOf(FindExtremeMoves(df, m, top_n, noise_pct)) \subseteq SetOf(spans)
              /\ m <= min_pct => SetOf(spans) \subseteq SetOf(FindExtremeMoves(df, m, top_n, noise_pct))
        /\ min_pct < 0 => spans = FindExtremeMoves(df, 0, top_n, noise_pct)
        /\ (min_pct <= 0 /\ top_n = None) => SetOf(spans) = SetOf(RawSpans)

(* a threshold that rejects some span of the series but not all *)
C16_Witness ==
    /\ Segmented
    /\ top_n = None
    /\ min_pct > 0
    /\ spans # <<>>
    /\ Len(spans) < Len(RawSpans)

(* C17, auxiliary definitions *)
(* the loop has just processed day `day`, a day of the other sign than the *)
(* current one, while a span was open                                      *)
CounterMove ==
    /\ pc = "seg" /\ pc' = "seg"
    /\ day' = day + 1
    /\ day >= 2
    /\ df[day] # df[day - 1]
    /\ prev_sign # 0
    /\ span_start # None
    /\ (df[day] > df[day - 1]) <=> (prev_sign < 0)

WithinNoise == Abs(df[day] - df[day - 1]) * 10000 <= noise_pct * df[day - 1]

Absorbed ==
    /\ spans' = spans
    /\ span_start' = span_start
    /\ prev_sign' = prev_sign
    /\ prev_idx' = day

Reversed ==
    /\ spans' = Append(spans, MakeSpan(df, span_start.val, prev_idx))
    /\ span_start' = Some(day)
    /\ prev_sign' = -prev_sign
    /\ prev_idx' = day

ExampleResult ==
    <<MkSpan("2024-01-08", "2024-01-08", 9826, -600, 1),
      MkSpan("2024-01-03", "2024-01-05", 10453, 453, 3)>>

(* C17: noise absorption.  While a span is open, a day of the other sign     *)
(* whose magnitude is <= noise_pct does not close the span, does not flip    *)
(* the current sign and becomes the last day of the span; a day of the other *)
(* sign whose magnitude is > noise_pct closes the span at the previous       *)
(* processed day and opens a new span at that day.  Daily changes of about   *)
(* +2, -0.5, +3, -6 percent with noise_pct = 1.0 give one span over the      *)
(* first three days and a second span for the -6% day.                       *)
C17_NoiseAbsorption ==
    /\ [][CounterMove => IF WithinNoise THEN Absorbed ELSE Reversed]_vars
    /\ [](  (Segmented /\ df = ExampleSeries /\ noise_pct = 100
                /\ min_pct <= 0 /\ top_n = None)
            => spans = ExampleResult)

(* the example has been segmented, and in it the -0.5% day was absorbed *)
C17_Witness ==
    /\ Segmented
    /\ df = ExampleSeries
    /\ noise_pct = 100
    /\ min_pct <= 0
    /\ top_n = None
    /\ \E j \in DOMAIN spans : FirstDay(spans[j]) < 3 /\ 3 < LastDay(spans[j])

(* C18: ranking.  The output is ordered by |pct| descending, spans of equal  *)
(* |pct| keep their chronological order, and the output for top_n = k is     *)
(* the first k elements of the output for the same inputs without top_n.     *)
C18_Ranking ==
    Segmented =>
        /\ \A j, k \in DOMAIN spans :
              j < k => \/ Abs(spans[j].pct) > Abs(spans[k].pct)
                       \/ /\ Abs(spans[j].pct) = Abs(spans[k].pct)
                          /\ FirstDay(spans[j]) < FirstDay(spans[k])
        /\ LET full == FindExtremeMoves(df, min_pct, None, noise_pct)
           IN  IF top_n = None THEN spans = full
               ELSE /\ Len(spans) = IF top_n.val < Len(full) THEN top_n.val ELSE Len(full)
                    /\ \A j \in DOMAIN spans : spans[j] = full[j]

(* a cap that cuts the ranked list, which holds two spans of equal |pct| *)
C18_Witness ==
    /\ Segmented
    /\ top_n # None
    /\ Len(spans) = top_n.val
    /\ Len(spans) < Len(FindExtremeMoves(df, min_pct, None, noise_pct))
    /\ \E j, k \in DOMAIN spans : j < k /\ Abs(spans[j].pct) = Abs(spans[k].pct)

-----------------------------------------------------------------------------
(* Two enrichment runs at the same time on the same ticker.  Each process    *)
(* runs annotate_events on its own list; save_annotation is three steps:     *)
(* the load, the open("w") and the dump, and the other process may run       *)
(* between any two of them, as it may while this one waits for the news, for *)
(* the summary or in the sleep between two spans.                            *)

Procs == {1, 2}

(* the variables the concurrent runs leave alone *)
racerest == <<pc, caller, ticker, recs, idx, delay, cached_count, news, news_items,
              retries, attempt, ret, pending, arg, pre, slog, runs,
              prices, pre_dir, segvars, chartvars>>

Local(p) == procs[p]

SetLocal(p, l) == procs' = [procs EXCEPT ![p] = l]

(* what summarise_with_llm returns: None, or the trimmed text *)
Summaries == {None, Some("Strong earnings beat")}

(* cached = get_cached_annotation(ticker, rec) *)
RaceLookup(p) ==
    LET l == Local(p) IN
    /\ l.pc = "loop"
    /\ l.idx <= Len(l.recs)
    /\ LET rec == l.recs[l.idx]
           r == GetCachedAnnotation(files, ticker, rec)
       IN  IF ~r.ok THEN SetLocal(p, [l EXCEPT !.pc = "crashed"])
           ELSE IF r.val.some
           THEN SetLocal(p, [l EXCEPT
                    !.recs[l.idx] = SetKey(SetKey(rec, "event", r.val.val.event),
                                           "headlines", r.val.val.headlines),
                    !.idx = l.idx + 1])
           ELSE SetLocal(p, [l EXCEPT !.pc = "search"])
    /\ UNCHANGED <<files, log, cache_dir, racerest>>

(* the loop is exhausted *)
RaceReturn(p) ==
    LET l == Local(p) IN
    /\ l.pc = "loop"
    /\ l.idx > Len(l.recs)
    /\ SetLocal(p, [l EXCEPT !.pc = "returned"])
    /\ UNCHANGED <<files, log, cache_dir, racerest>>

(* news = search_news(...) has answered, rec["headlines"] is set, and the *)
(* process enters summarise_with_llm, where it waits for the completion   *)
(* service                                                                *)
RaceSearch(p, o) ==
    LET l == Local(p) IN
    /\ l.pc = "search"
    /\ SetLocal(p, [l EXCEPT
            !.recs[l.idx] = SetKey(@, "headlines", HeadlinesOf(SearchNewsResult(o))),
            !.pc = "summarise"])
    /\ UNCHANGED <<files, log, cache_dir, racerest>>

(* summarise_with_llm has returned, after all its attempts and sleeps, and *)
(* rec["event"] is set; without headlines it returns None                  *)
RaceSummarise(p, summary) ==
    LET l == Local(p) IN
    /\ l.pc = "summarise"
    /\ l.recs[l.idx]["headlines"] = <<>> => summary = None
    /\ SetLocal(p, [l EXCEPT
            !.recs[l.idx] = SetKey(@, "event", EventOf(summary, @)),
            !.pc = "save"])
    /\ UNCHANGED <<files, log, cache_dir, racerest>>

(* save_annotation: store = _load_annotations_store(ticker); store[key] = ... *)
RaceSaveLoad(p) ==
    LET l == Local(p) IN
    /\ l.pc = "save"
    /\ LET r == LoadAnnotationsStore(files, ticker)
           rec == l.recs[l.idx]
       IN  IF ~r.ok THEN SetLocal(p, [l EXCEPT !.pc = "crashed"])
           ELSE SetLocal(p, [l EXCEPT !.store = SetKey(r.val, SpanKey(rec), AnnotationOf(rec)),
                                      !.pc = "open"])
    /\ UNCHANGED <<files, log, cache_dir, racerest>>

(* _save_annotations_store: _ensure_cache_dir(); open("w") empties the file *)
RaceSaveOpen(p) ==
    LET l == Local(p) IN
    /\ l.pc = "open"
    /\ cache_dir' = TRUE
    /\ files' = [files EXCEPT ![ticker] = FileGarbage]
    /\ SetLocal(p, [l EXCEPT !.pc = "dump"])
    /\ UNCHANGED <<log, racerest>>

(* mutant: the store is read again at the moment of the write *)
StoreDumped_Merged(p) ==
    IF files[ticker].kind = "json"
    THEN [k \in DOMAIN files[ticker].data \cup DOMAIN Local(p).store |->
             IF k \in DOMAIN Local(p).store THEN Local(p).store[k]
             ELSE files[ticker].data[k]]
    ELSE Local(p).store

(* json.dump(store, f): the store as this process holds it in memory *)
StoreDumped(p) == Local(p).store

(* json.dump and the close: the text goes to the start of the file.  On a   *)
(* file that the other process has filled since this process opened it, the *)
(* result is this store, or, when the other text is longer, this text       *)
(* followed by the rest of the other: not JSON.                             *)
RaceSaveDump(p, clean) ==
    LET l == Local(p) IN
    /\ l.pc = "dump"
    /\ files[ticker].kind # "json" => clean
    /\ files' = [files EXCEPT ![ticker] = IF clean THEN FileJson(StoreDumped(p)) ELSE FileGarbage]
    /\ log' = Append(log, [e |-> "put", p |-> p, key |-> SpanKey(l.recs[l.idx]),
                           clean |-> clean])
    /\ SetLocal(p, [l EXCEPT !.pc = "pace"])
    /\ UNCHANGED <<cache_dir, racerest>>

(* save_annotation has returned: `if i < total: time.sleep(delay)`, where   *)
(* the process waits, then the next iteration.  The history of concurrent   *)
(* runs keeps the puts only.                                                *)
RacePace(p) ==
    LET l == Local(p) IN
    /\ l.pc = "pace"
    /\ SetLocal(p, [l EXCEPT !.pc = "loop", !.idx = l.idx + 1])
    /\ UNCHANGED <<files, log, cache_dir, racerest>>

RaceLists == {<<SpanA>>, <<SpanB>>, <<SpanA, SpanB>>}

(* two processes have entered annotate_events, the store holds no file *)
InitRace ==
    /\ procs \in [Procs -> {[pc |-> "loop", recs |-> rs, idx |-> 1, store |-> EmptyDict] :
                              rs \in RaceLists}]
    /\ files = [t \in Tickers |-> FileMissing]
    /\ pre = [t \in Tickers |-> FileMissing]
    /\ pc = "idle"
    /\ caller = "race"
    /\ ticker = "XYZ"
    /\ recs = <<>>
    /\ idx = 0
    /\ delay = 0
    /\ cached_count = 0
    /\ news = <<>>
    /\ news_items = <<>>
    /\ retries = 0
    /\ attempt = 0
    /\ ret = None
    /\ pending = EmptyDict
    /\ arg = EmptyDict
    /\ log = <<>>
    /\ slog = <<>>
    /\ runs = 0
    /\ cache_dir = FALSE
    /\ prices = {}
    /\ pre_dir = {}
    /\ SegIdle
    /\ ChartIdle

NextRace ==
    \/ \E p \in Procs : RaceLookup(p)
    \/ \E p \in Procs : RaceReturn(p)
    \/ \E p \in Procs, o \in DDGSOutcomes : RaceSearch(p, o)
    \/ \E p \in Procs, s \in Summaries : RaceSummarise(p, s)
    \/ \E p \in Procs : RaceSaveLoad(p)
    \/ \E p \in Procs : RaceSaveOpen(p)
    \/ \E p \in Procs, clean \in BOOLEAN : RaceSaveDump(p, clean)
    \/ \E p \in Procs : RacePace(p)

SpecRace == InitRace /\ [][NextRace]_vars

(* C19, auxiliary definitions *)
(* process p completes its dump in this step *)
Dumps(p) == procs[p].pc = "dump" /\ procs'[p].pc # "dump"

(* the keys some process has persisted so far *)
Persisted == {log[m].key : m \in {n \in DOMAIN log : log[n].e = "put" /\ log[n].clean}}

BothReturned == \A p \in Procs : procs[p].pc = "returned"

(* C19: put is an unlocked load-modify-rewrite of the whole file of the     *)
(* ticker, and the last write wins: when a process completes its put, every *)
(* record that was persisted after this process loaded the store is absent  *)
(* from the file, and the file holds nothing that this process did not hold *)
(* in memory.  (The witness: two runs return, and a record that one of them *)
(* persisted is absent from the final store.)                               *)
C19_LastWriteWins ==
    [][\A p \in Procs :
          Dumps(p) =>
              /\ \A k \in DOMAIN files[ticker].data \ DOMAIN procs[p].store :
                    ~StoreHas(files', ticker, k)
              /\ \A k \in DOMAIN files'[ticker].data :
                    k \in DOMAIN procs[p].store /\ files'[ticker].data[k] = procs[p].store[k]
      ]_vars

(* the lost update: both runs have returned, the final store is readable, *)
(* and a record that a run persisted is not in it                         *)
C19_Witness ==
    /\ caller = "race"
    /\ BothReturned
    /\ files[ticker].kind = "json"
    /\ \E k \in Persisted : k \notin DOMAIN files[ticker].data

-----------------------------------------------------------------------------
(* chart.py, data.py: build_chart and download_prices *)

ChartRanges == {[start |-> "2024-01-02", end |-> "2024-01-04"],
                [start |-> "2024-01-02", end |-> "2024-01-09"]}

(* the closes the price provider has for a ticker and a range *)
Market(t, s, e) ==
    IF e = "2024-01-04" THEN <<10000, 10523>>
    ELSE <<10000, 10523, 10200, 9800, 9224>>

(* what yf.download can return: no row, or the closes of the range *)
ProviderResults(t, s, e) == {<<>>, Market(t, s, e)}

ChartTopNs == {None, Some(1)}

(* main is started and parse_args has read the command line: the ticker, *)
(* --start, --end, --min-pct, --top, --no-news and --clear-cache           *)
ChartStart(cc, t, s, e, min, top, nn) ==
    /\ runs < MaxRuns
    /\ FreshProcess("chart")
    /\ pre_dir' = Listing(files, prices)
    /\ clear_cache' = cc
    /\ ticker' = t
    /\ start_str' = s
    /\ end_str' = e
    /\ min_pct' = min
    /\ top_n' = top
    /\ no_news' = nn
    /\ pc' = "main"
    /\ df' = <<>>
    /\ spans' = <<>>
    /\ recs' = <<>>
    /\ idx' = 0
    /\ delay' = 0
    /\ cached_count' = 0
    /\ news_items' = <<>>
    /\ retries' = 0
    /\ attempt' = 0
    /\ ret' = None
    /\ pending' = EmptyDict
    /\ arg' = EmptyDict
    /\ slog' = <<>>
    /\ UNCHANGED <<files, cache_dir, prices, procs,
                   noise_pct, day, span_start, prev_sign, prev_idx>>

(* `if args.clear_cache: n = clear_cache(args.ticker)`, then build_chart is *)
(* called with the arguments of the command line                            *)
MainClearCache ==
    /\ pc = "main"
    /\ LET matched == IF clear_cache THEN Matched(Some(ticker)) ELSE {}
       IN  /\ files' = [t \in DOMAIN files |->
                           IF AnnotationsPath(t) \in matched THEN FileMissing ELSE files[t]]
           /\ prices' = {k \in prices : PricesPath(k.ticker, k.start, k.end) \notin matched}
    /\ pc' = "load_prices"
    /\ UNCHANGED <<caller, ticker, recs, idx, delay, cached_count, news, news_items,
                   retries, attempt, ret, pending, arg, pre, log, slog, runs,
                   cache_dir, pre_dir, procs, chartvars, segvars>>

(* cached = load_prices(ticker, start_str, end_str); returned when not None *)
LoadPrices ==
    /\ pc = "load_prices"
    /\ IF PriceKey(ticker, start_str, end_str) \in prices
       THEN /\ df' = Market(ticker, start_str, end_str)
            /\ pc' = "segment"
       ELSE /\ pc' = "download"
            /\ UNCHANGED df
    /\ UNCHANGED <<min_pct, top_n, noise_pct, day, spans, span_start, prev_sign, prev_idx,
                   runvars>>

(* mutant: the series is saved before it is tested for emptiness *)
YfDownload_SavesFirst(result) ==
    /\ pc = "download"
    /\ log' = Append(log, [e |-> "prices", i |-> 0, empty |-> result = <<>>])
    /\ cache_dir' = TRUE
    /\ prices' = prices \cup {PriceKey(ticker, start_str, end_str)}
    /\ IF result = <<>>
       THEN /\ pc' = "exited"
            /\ UNCHANGED df
       ELSE /\ df' = result
            /\ pc' = "segment"
    /\ UNCHANGED <<files, caller, ticker, recs, idx, delay, cached_count, news, news_items,
                   retries, attempt, ret, pending, arg, pre, slog, runs, pre_dir, procs,
                   chartvars, min_pct, top_n, noise_pct, day, spans, span_start,
                   prev_sign, prev_idx>>

(* df = yf.download(...); SystemExit when df.empty, else save_prices *)
YfDownload(result) ==
    /\ pc = "download"
    /\ log' = Append(log, [e |-> "prices", i |-> 0, empty |-> result = <<>>])
    /\ IF result = <<>>
       THEN /\ pc' = "exited"
            /\ UNCHANGED <<df, cache_dir, prices>>
       ELSE /\ df' = result
            /\ cache_dir' = TRUE
            /\ prices' = prices \cup {PriceKey(ticker, start_str, end_str)}
            /\ pc' = "segment"
    /\ UNCHANGED <<files, caller, ticker, recs, idx, delay, cached_count, news, news_items,
                   retries, attempt, ret, pending, arg, pre, slog, runs, pre_dir, procs,
                   chartvars, min_pct, top_n, noise_pct, day, spans, span_start,
                   prev_sign, prev_idx>>

(* extreme_records = find_extreme_moves(df, min_pct=min_pct, top_n=top_n) *)
ChartSegment ==
    /\ pc = "segment"
    /\ spans' = FindExtremeMoves(df, min_pct, top_n, 0)
    /\ recs' = spans'
    /\ pc' = "enrich"
    /\ UNCHANGED <<files, caller, ticker, idx, delay, cached_count, news, news_items,
                   retries, attempt, ret, pending, arg, pre, log, slog, runs,
                   cache_dir, prices, pre_dir, procs, chartvars,
                   df, min_pct, top_n, noise_pct, day, span_start, prev_sign, prev_idx>>

(* `if not no_news and extreme_records: annotate_events(extreme_records, ticker)` *)
ChartEnrich ==
    /\ pc = "enrich"
    /\ IF ~no_news /\ recs # <<>>
       THEN /\ pc' = "loop"
            /\ idx' = 1
            /\ delay' = DefaultDelay
            /\ cached_count' = 0
       ELSE /\ pc' = "render"
            /\ UNCHANGED <<idx, delay, cached_count>>
    /\ UNCHANGED <<files, caller, ticker, recs, news, news_items, retries, attempt, ret,
                   pending, arg, pre, log, slog, runs, cache_dir, prices, pre_dir, procs,
                   chartvars, segvars>>

(* dates, prices, markers, then HTML_TEMPLATE.format(ticker, range_label,   *)
(* dates, prices, markers): the template also has the field {spans}, so     *)
(* format raises KeyError and output.write_text is not reached              *)
ChartRender ==
    /\ pc = "render"
    /\ pc' = "crashed"
    /\ UNCHANGED <<runvars, segvars>>

(* runs of main, one after another, with --min-pct 5.0 *)
NextChart ==
    \/ \E cc \in BOOLEAN, r \in ChartRanges, min \in {500}, top \in ChartTopNs,
          nn \in BOOLEAN :
          ChartStart(cc, "XYZ", r.start, r.end, min, top, nn)
    \/ MainClearCache
    \/ LoadPrices
    \/ \E result \in ProviderResults(ticker, start_str, end_str) : YfDownload(result)
    \/ ChartSegment
    \/ ChartEnrich
    \/ ChartRender
    \/ AnnotateReturn
    \/ CacheLookup
    \/ \E o \in DDGSOutcomes : SearchNews(o)
    \/ AnnotateSummarise
    \/ \E resp \in LLMResponses : LLMAttempt(resp)
    \/ LLMBackoff
    \/ AssignEvent
    \/ AnnotateSave
    \/ SaveDump
    \/ Pace

SpecChart == Init /\ [][NextChart]_vars

(* C20, auxiliary definitions *)
EmptyFetch == \E m \in DOMAIN log : log[m].e = "prices" /\ log[m].empty

(* a name that --clear-cache removes before build_chart is called *)
ClearedFirst(n) == clear_cache /\ GlobMatch(GlobPrefix(Some(ticker)), n)

C20_ClearedThenAborted ==
    /\ EmptyFetch
    /\ pc = "exited"
    /\ clear_cache
    /\ pre_dir # {}
    /\ pre[ticker].kind = "json"
    /\ Listing(files, prices) = {}

-----------------------------------------------------------------------------
(* C21, auxiliary definitions *)
(* the spans of this run that were looked up afresh and got the synthetic label *)
FallbackSpans ==
    {j \in MissSpans : Assigned(j) /\ "event" \in DOMAIN recs[j]
                          /\ recs[j]["event"] = FallbackLabel(recs[j])}

(* the store at the start of the run holds the synthetic label for span j *)
FallbackStored(j) ==
    /\ StoreHas(pre, ticker, SpanKey(recs[j]))
    /\ pre[ticker].data[SpanKey(recs[j])].event = FallbackLabel(recs[j])

(* C21: the exhausted-retries fallback is cached.  When the summariser       *)
(* returns nothing for a cache-miss span, event is the "<signed pct>% move"  *)
(* label; once that record is written the store holds it, so that a later   *)
(* run over the span is served the label from the store and makes no call    *)
(* for it.                                                                   *)
C21_FallbackIsCached ==
    caller = "annotate" =>
        /\ (pc \in {"save", "dump", "pace"} /\ ~Truthy(ret) /\ idx \in MissSpans)
              => idx \in FallbackSpans
        /\ \A j \in FallbackSpans :
              (Written(j) /\ pc # "dump") =>
                  /\ StoreHas(files, ticker, SpanKey(recs[j]))
                  /\ files[ticker].data[SpanKey(recs[j])] = AnnotationOf(recs[j])
        /\ \A j \in DOMAIN recs :
              (FallbackStored(j) /\ LogAt("get", j) # {}) =>
                  /\ j \in HitSpans
                  /\ ExternalAt(j) = {}
                  /\ recs[j]["event"] = FallbackLabel(recs[j])

-----------------------------------------------------------------------------
(* C22, auxiliary definitions *)
(* the series without its day i *)
Remove(closes, i) == SubSeq(closes, 1, i - 1) \o SubSeq(closes, i + 1, Len(closes))

(* the day of the whole series that is day j of the series without day i *)
Up(i, j) == IF j < i THEN j ELSE j + 1

(* the (start_date, end_date) bounds of a result, as days of the series *)
BoundsOf(sp) == {<<FirstDay(s), LastDay(s)>> : s \in SetOf(sp)}

(* the bounds returned for the series without day i, as days of the whole series *)
BoundsWithout(i) ==
    {<<Up(i, b[1]), Up(i, b[2])>> :
        b \in BoundsOf(FindExtremeMoves(Remove(df, i), min_pct, top_n, noise_pct))}

(* day i is neither the start_date nor the end_date of a returned span *)
NoBoundOn(i) ==
    \A j \in DOMAIN spans : FirstDay(spans[j]) # i /\ LastDay(spans[j]) # i

(* the iteration over a skipped day closes no span and leaves the current *)
(* sign, the open span and its last day as they were                       *)
SkipLeavesLoop ==
    (pc = "seg" /\ day <= Len(df) /\ day' = day + 1 /\ Skipped(df, day))
        => UNCHANGED <<spans, span_start, prev_sign, prev_idx>>

(* C22 as stated: a day with undefined or exactly-zero daily change is never *)
(* the start_date or end_date of a span, never closes a span or changes the  *)
(* current sign, and the bounds produced are those of the series with that   *)
(* day removed.                                                              *)
C22_SkippedDayRemovable ==
    /\ [][SkipLeavesLoop]_vars
    /\ [](Segmented =>
            \A i \in DOMAIN df :
                Skipped(df, i) => (NoBoundOn(i) /\ BoundsOf(spans) = BoundsWithout(i)))

(* C22, amended: a day with undefined or exactly-zero daily change is never  *)
(* the start_date or end_date of a span and never closes a span or changes   *)
(* the current sign; for a day with exactly-zero change the bounds produced  *)
(* are those of the series with that day removed.                            *)
C22_ZeroDayRemovable ==
    /\ [][SkipLeavesLoop]_vars
    /\ [](Segmented =>
            \A i \in DOMAIN df :
                Skipped(df, i) =>
                    /\ NoBoundOn(i)
                    /\ (~IsNaN(df, i) => BoundsOf(spans) = BoundsWithout(i)))

(* a series with a day of zero change inside a returned span has been segmented *)
C22_Witness ==
    /\ Segmented
    /\ \E i \in DOMAIN df : \E j \in DOMAIN spans :
          /\ ~IsNaN(df, i)
          /\ Delta(df, i) = 0
          /\ FirstDay(spans[j]) < i
          /\ i < LastDay(spans[j])

-----------------------------------------------------------------------------
(* C23: for every returned span, for any noise_pct >= 0, the sign of pct     *)
(* equals the direction of the span, the sign of the daily change on its     *)
(* start_date.                                                               *)
C23_SignIsDirection ==
    Segmented =>
        \A j \in DOMAIN spans :
            /\ spans[j].pct > 0 <=> Direction(spans[j]) = 1
            /\ spans[j].pct < 0 <=> Direction(spans[j]) = -1

-----------------------------------------------------------------------------
(* C24, auxiliary definitions *)
(* the days of the series inside the bounds of a span *)
DaysIn(s) == {i \in DOMAIN df : FirstDay(s) <= i /\ i <= LastDay(s)}

(* C24: span well-formedness and key uniqueness.  For any series and         *)
(* parameters every returned span has start_date <= end_date and days >= 1   *)
(* equal to the number of series dates in [start_date, end_date]; the date   *)
(* ranges of distinct spans are disjoint, so no two spans share a store key; *)
(* an empty or single-point series yields no spans.                          *)
C24_WellFormed ==
    Segmented =>
        /\ \A j \in DOMAIN spans :
              /\ FirstDay(spans[j]) <= LastDay(spans[j])
              /\ spans[j].days >= 1
              /\ spans[j].days = Cardinality(DaysIn(spans[j]))
        /\ \A j, k \in DOMAIN spans :
              j # k => /\ DaysIn(spans[j]) \cap DaysIn(spans[k]) = {}
                       /\ SpanKey(spans[j]) # SpanKey(spans[k])
        /\ Len(df) <= 1 => spans = <<>>

(* a series has been segmented into two spans, one of them of several days *)
C24_Witness ==
    /\ Segmented
    /\ Len(spans) >= 2
    /\ \E j \in DOMAIN spans : spans[j].days >= 2

-----------------------------------------------------------------------------
(* C25, auxiliary definitions *)
(* annotate_events has returned to its caller *)
Enriched == caller = "annotate" /\ pc = "returned"

(* C25: enrichment post-condition.  Starting from a store that is empty or   *)
(* was filled only by earlier enrichment runs, when annotate_events returns  *)
(* every span of the input list has a non-empty event and at most 3          *)
(* headlines, and the store holds under the span's key a record equal to the *)
(* span's {event, headlines}.                                                *)
C25_EnrichmentPostCondition ==
    Enriched =>
        \A j \in DOMAIN recs :
            /\ "event" \in DOMAIN recs[j]
            /\ "headlines" \in DOMAIN recs[j]
            /\ recs[j]["event"] # ""
            /\ Len(recs[j]["headlines"]) <= HeadlineCap
            /\ StoreHas(files, ticker, SpanKey(recs[j]))
            /\ files[ticker].data[SpanKey(recs[j])] = AnnotationOf(recs[j])

(* a run over two spans has returned: the first was served from the store of *)
(* an earlier run, the second was looked up afresh and more titles were      *)
(* found for it than are kept                                                *)
C25_Witness ==
    /\ Enriched
    /\ Len(recs) = 2
    /\ 1 \in HitSpans
    /\ 2 \in MissSpans
    /\ LogAt("news", 2) # {}
    /\ Len(news_items) > HeadlineCap
    /\ Len(recs[2]["headlines"]) = HeadlineCap

====
